---------------------------- MODULE Spec2Model ----------------------------
(***************************************************************************)
(* End-to-end encryption core of the chat client.                          *)
(*                                                                         *)
(*   CryptoService      (src/frontend/src/components/MockAuth.js 93-282)   *)
(*   EncryptionService  (src/frontend/src/components/MockAuth.js 311-706)  *)
(*   KeyExchangeService (src/frontend/src/services/keyExchangeService.js)  *)
(*                                                                         *)
(* Every user runs one process holding the three singletons; the           *)
(* processes share only the key directory server.  keyStorageService and   *)
(* CryptoService.signWithRSA / verifyRSASignature are called by the        *)
(* sources but not defined in them: they are modelled from sections 4.1    *)
(* and 4.2 of the specification.                                           *)
(*                                                                         *)
(* Cryptography is idealised: decrypting under a key other than the one    *)
(* that encrypted yields no usable result.  What is structural is kept:    *)
(* AES runs in CBC mode with unvalidated PKCS7 unpadding and no            *)
(* authentication tag, so the plaintext block is the decrypted block XOR   *)
(* the iv the receiver is handed.                                          *)
(*                                                                         *)
(* Specifications:                                                         *)
(*   Spec         two users, every handler one atomic action, envelopes on *)
(*                the wire that an attacker may alter;                     *)
(*   SpecInit     one process, initialize / refreshKeys split at their     *)
(*                suspension points, promise reactions in microtask order; *)
(*   SpecCache    the public key cache over time;                          *)
(*   SpecKeys     initialization from every state of the key store;        *)
(*   SpecStore    calls of initialize only, step by step;                  *)
(*   SpecLive     SpecStore's steps under fairness;                        *)
(*   SpecClock    key versions under a wall clock that can be set back;    *)
(*   SpecSession  encryptMessage split at its key lookup, with refreshKeys *)
(*                and clearEncryption;                                     *)
(*   SpecMaps     SpecCache with calls of clearCache;                      *)
(*   SpecFlow     the primitives of CryptoService composed as in the       *)
(*                TestRunner;                                              *)
(*   SpecRetry    the retry code (utils/errorHandler.js and the loops of   *)
(*                KeyExchangeService), under fairness;                     *)
(*   SpecChat     sendMessage of hooks/useChat.js;                         *)
(*   SpecInbox    handleMessage of hooks/useChat.js, calls interleaved.    *)
(***************************************************************************)
EXTENDS Integers, Sequences, FiniteSets, TLC

(***************************************************************************)
(* Bounds of the model                                                     *)
(***************************************************************************)
\* longest plaintext, in characters; one cipher block holds MaxLen + padding
MaxLen == 1
\* key pairs generated in the process of one user
MaxKeys == 6
\* I/O failures (key store, network, key generation) injected in one run
MaxFaults == 1
\* last reading of the clock (SpecCache, SpecClock)
MaxTime == 4
\* callers of initialize / refreshKeys in one process (SpecInit)
NCallers == 2

(***************************************************************************)
(* Program constants                                                       *)
(***************************************************************************)
\* KeyExchangeService.maxRetries
maxRetries == 3
\* KeyExchangeService.cacheExpiry (30 minutes), in clock ticks of 15 minutes
cacheExpiry == 2

Users == {"alice", "bob"}
\* user ids and tokens are strings; "" is the falsy empty value / null
NoUser == ""
TokenOf(u) == "tok"

\* Key material.  A well-formed PEM of key pair k is the number k >= 1 (the
\* public and the private half live in differently named fields); 0 is
\* null; MalformedPem is material that fails the PEM framing regex;
\* GarbagePem is PEM-framed material that no RSA operation accepts.
Null == 0
MalformedPem == 0 - 1
GarbagePem == 0 - 2

\* characters of a plaintext string, bytes of a cipher block
Chars == {0, 1}
BlockSize == MaxLen + 1
Strings == UNION {[1..n -> Chars] : n \in 0..MaxLen}
\* hex strings CryptoJS.lib.WordArray.random(32) can return
AesKeys == {1, 2}
\* the AES keys generateAESKey draws in the model; the other one is left to
\* whoever alters an envelope
DrawnAesKeys == {1}
\* values CryptoJS.lib.WordArray.random(16) can return
IVs == {iv \in [1..BlockSize -> Chars] : \A i \in 2..(BlockSize - 1) : iv[i] = 0}
\* the value the model lets encryptWithAES draw; the others are left to
\* whoever alters an envelope
DrawnIVs == {iv \in IVs : iv[1] = 1 /\ iv[BlockSize] = 0}

(***************************************************************************)
(* CryptoService                                                           *)
(***************************************************************************)
Fail == [ok |-> FALSE, v |-> 0]
Ok(x) == [ok |-> TRUE, v |-> x]

RECURSIVE Xor(_, _)
Xor(a, b) ==
    IF a = 0 THEN b
    ELSE IF b = 0 THEN a
    ELSE (((a % 2) + (b % 2)) % 2) + (2 * Xor(a \div 2, b \div 2))

XorBlock(x, y) == [i \in 1..BlockSize |-> Xor(x[i], y[i])]

\* CryptoJS.pad.Pkcs7.pad: n bytes of value n, n = BlockSize - Len(m) >= 1
Pkcs7Pad(m) == [i \in 1..BlockSize |-> IF i <= Len(m) THEN m[i] ELSE BlockSize - Len(m)]

\* CryptoJS.pad.Pkcs7.unpad: the last byte is taken as the padding length and
\* cut off without validation; a length that exceeds the data leaves nothing
Pkcs7Unpad(x) ==
    LET n == x[BlockSize]
    IN  IF n >= BlockSize THEN <<>> ELSE [i \in 1..(BlockSize - n) |-> x[i]]

\* decrypted.toString(CryptoJS.enc.Utf8) throws 'Malformed UTF-8 data' on
\* bytes that are no characters
Utf8Valid(s) == \A i \in 1..Len(s) : s[i] \in Chars

\* the AES block cipher under key k applied to block b
AesBlock(k, b) == [k |-> k, b |-> b]
GarbageContent == [k |-> 0, b |-> [i \in 1..BlockSize |-> 0]]

\* CryptoService.encryptWithAES with the iv it drew
encryptWithAES(message, aesKeyHex, iv) ==
    [encryptedData |-> AesBlock(aesKeyHex, XorBlock(Pkcs7Pad(message), iv)), iv |-> iv]

\* decryptWithAES that does not undo the chaining with the iv
decryptWithAES_NoIv(encryptedData, ivB64, aesKeyHex) ==
    IF encryptedData.k # aesKeyHex \/ aesKeyHex = 0
    THEN Fail
    ELSE LET s == Pkcs7Unpad(encryptedData.b)
         IN  IF ~Utf8Valid(s) \/ s = <<>> THEN Fail ELSE Ok(s)

\* CryptoService.decryptWithAES
decryptWithAES(encryptedData, ivB64, aesKeyHex) ==
    IF encryptedData.k # aesKeyHex \/ aesKeyHex = 0
    THEN Fail
    ELSE LET s == Pkcs7Unpad(XorBlock(encryptedData.b, ivB64))
         IN  IF ~Utf8Valid(s) \/ s = <<>> THEN Fail ELSE Ok(s)

\* JSEncrypt accepts a key only if it parses
RsaUsable(key) == key >= 1

GarbageWrap == [to |-> 0, key |-> 0]

\* CryptoService.encryptWithRSA
encryptWithRSA(data, publicKey) ==
    IF RsaUsable(publicKey) THEN Ok([to |-> publicKey, key |-> data]) ELSE Fail

\* decryptWithRSA without the test that the private key is the one of the pair
\* the data was encrypted for
decryptWithRSA_AnyKey(encryptedData, privateKey) ==
    IF RsaUsable(privateKey) /\ encryptedData.to >= 1 THEN Ok(encryptedData.key) ELSE Fail

\* CryptoService.decryptWithRSA
decryptWithRSA(encryptedData, privateKey) ==
    IF RsaUsable(privateKey) /\ encryptedData.to = privateKey
    THEN Ok(encryptedData.key)
    ELSE Fail

\* CryptoService.exportAESKey / importAESKey: the hex string as it is
exportAESKey(aesKeyHex) == aesKeyHex
importAESKey(aesKeyHex) == aesKeyHex

\* CryptoService.exportPublicKey / importPublicKey: the PEM string as it is
exportPublicKey(publicKey) == publicKey
importPublicKey(publicKeyPem) == publicKeyPem

\* CryptoService.exportPrivateKey / importPrivateKey: the PEM string as it is
exportPrivateKey(privateKey) == privateKey
importPrivateKey(privateKeyPem) == privateKeyPem

\* a signature value; signer 0 is the absent (falsy) signature
NoSignature == [signer |-> 0, data |-> <<>>]
GarbageSignature == [signer |-> 0 - 1, data |-> <<>>]

\* CryptoService.signWithRSA (specification 4.1, sign)
signWithRSA(data, privateKey) ==
    IF RsaUsable(privateKey) THEN Ok([signer |-> privateKey, data |-> data]) ELSE Fail

\* CryptoService.verifyRSASignature (specification 4.1, verify)
verifyRSASignature(data, signature, publicKey) ==
    RsaUsable(publicKey) /\ signature.signer = publicKey /\ signature.data = data

(***************************************************************************)
(* State                                                                   *)
(***************************************************************************)
VARIABLES
    enc,        \* per user: the EncryptionService singleton
    kx,         \* per user: the KeyExchangeService singleton
    ks,         \* per user: the keyStorageService records of that browser
    directory,  \* the key directory server: user -> {public_key, key_version}
    now,        \* Date.now(), in ticks; the runs modelled take no time
    faults,     \* I/O failures injected so far
    generated,  \* per user: key pairs generateRSAKeyPair has returned there
    att,        \* SpecInit: per caller, its run of _performInitialization
    call,       \* SpecInit: per caller, where its initialize/refreshKeys call is
    mq,         \* SpecInit: promise reactions queued as microtasks, in order
    wire,       \* the envelope in transit
    sent,       \* what encryptMessage returned for the envelope in transit
    last        \* the last completed encryptMessage / decryptMessage call

vars == <<enc, kx, ks, directory, now, faults, generated, att, call, mq, wire, sent, last>>

Callers == 1..NCallers

\* EncryptionErrorTypes; NoError is the null lastError
NoError == "none"
KEY_GENERATION_FAILED == "key_generation_failed"
ENCRYPTION_FAILED == "encryption_failed"
DECRYPTION_FAILED == "decryption_failed"
SIGNATURE_VERIFICATION_FAILED == "signature_verification_failed"
INITIALIZATION_FAILED == "initialization_failed"
KEY_EXCHANGE_FAILED == "key_exchange_failed"

\* EncryptionStatus
AVAILABLE == "available"
UNAVAILABLE == "unavailable"
INITIALIZING == "initializing"
ERROR == "error"

NoEntry == [publicKey |-> Null, keyVersion |-> 0, timestamp |-> 0]
NoRecord == [public_key |-> Null, key_version |-> 0]

\* EncryptionService constructor
NewEncryptionService ==
    [isInitialized |-> FALSE, currentUserId |-> NoUser, currentToken |-> NoUser,
     lastError |-> NoError, initializationPromise |-> 0]

\* KeyExchangeService constructor
NewKeyExchangeService ==
    [userKeys |-> [v \in Users |-> NoEntry], keyVersions |-> [v \in Users |-> 0],
     myPrivateKey |-> Null, myPublicKey |-> Null, myKeyVersion |-> 1]

\* an empty key store (specification 4.2 and 6: one private key record and a
\* public-key cache)
NewKeyStore == [privateKey |-> Null, publicKeys |-> [v \in Users |-> Null]]

(***************************************************************************)
(* KeyExchangeService, pure parts                                          *)
(***************************************************************************)
\* KeyExchangeService._isValidPublicKey: the PEM framing regex
IsValidPublicKey(publicKey) == publicKey >= 1 \/ publicKey = GarbagePem

\* KeyExchangeService._isValidPrivateKey: the PEM framing regex
IsValidPrivateKey(privateKey) == privateKey >= 1 \/ privateKey = GarbagePem

\* KeyExchangeService._isCacheValid at time t
IsCacheValid(timestamp, t) == t - timestamp < cacheExpiry

\* KeyExchangeService.validateKeyPair; publicKey may be null
validateKeyPair(publicKey, privateKey) ==
    IF privateKey = Null THEN FALSE
    ELSE IF ~IsValidPrivateKey(privateKey) THEN FALSE
    ELSE IF publicKey # Null /\ ~IsValidPublicKey(publicKey) THEN FALSE
    ELSE LET signature == signWithRSA(<<>>, privateKey)
         IN  IF ~signature.ok THEN FALSE
             ELSE IF publicKey = Null THEN TRUE
             ELSE IF ~verifyRSASignature(<<>>, signature.v, publicKey) THEN FALSE
             ELSE LET encrypted == encryptWithRSA(1, publicKey)
                      decrypted == IF encrypted.ok
                                   THEN decryptWithRSA(encrypted.v, privateKey)
                                   ELSE Fail
                  IN  decrypted.ok /\ decrypted.v = 1

\* _validateKeyPairMatch without the comparison of what was decrypted
validateKeyPairMatch_NoComparison(publicKey, privateKey) ==
    encryptWithRSA(1, publicKey).ok /\ RsaUsable(privateKey)

\* KeyExchangeService._validateKeyPairMatch
validateKeyPairMatch(publicKey, privateKey) ==
    LET encrypted == encryptWithRSA(1, publicKey)
        decrypted == IF encrypted.ok THEN decryptWithRSA(encrypted.v, privateKey) ELSE Fail
    IN  decrypted.ok /\ decrypted.v = 1

\* a version read as 1 whatever the server reported
VersionOr1_One(v) == 1

\* key_version || 1
VersionOr1(v) == IF v = 0 THEN 1 ELSE v

\* clearCache that leaves the version map alone
clearCache_KeysOnly(k) == [k EXCEPT !.userKeys = [v \in Users |-> NoEntry]]

\* KeyExchangeService.clearCache
clearCache(k) ==
    [k EXCEPT !.userKeys = [v \in Users |-> NoEntry], !.keyVersions = [v \in Users |-> 0]]

\* a retry delay that does not grow
retryDelay_Constant(retryCount) == 1000

\* the time, in milliseconds, the retry loops of getUserPublicKey and of
\* initializeKeys wait after the failure that made retryCount failures:
\* _delay(1000 * retryCount)
retryDelay(retryCount) == 1000 * retryCount

\* the retry loop without its break: every fetch is made
fetchWithRetry_NoBreak(responds, retryCount) ==
    [ok |-> \E i \in 1..maxRetries : responds[i], fetches |-> maxRetries,
     waits |-> [i \in 1..(maxRetries - 1) |-> retryDelay(i)]]

\* the retry loop of getUserPublicKey, entered with retryCount failures
\* behind it; responds[i] tells whether the i-th fetch of the call gets a
\* response.  Returns whether keyData was fetched, the fetches made and the
\* waits between them, in order.
RECURSIVE fetchWithRetry(_, _)
fetchWithRetry(responds, retryCount) ==
    IF ~(retryCount < maxRetries)
    THEN [ok |-> FALSE, fetches |-> retryCount, waits |-> <<>>]
    ELSE IF responds[retryCount + 1]
    THEN [ok |-> TRUE, fetches |-> retryCount + 1, waits |-> <<>>]
    ELSE IF retryCount + 1 >= maxRetries
    THEN [ok |-> FALSE, fetches |-> retryCount + 1, waits |-> <<>>]
    ELSE [fetchWithRetry(responds, retryCount + 1) EXCEPT
                !.waits = <<retryDelay(retryCount + 1)>> \o @]

\* KeyExchangeService.getUserPublicKey on the service record k at time t,
\* when the server answers the fetches that get a response with keyData.
\* Returns the key (or the failure), the new service record and the number
\* of fetches made.
fetchUserPublicKey(k, keyData, userId, t, responds) ==
    LET cachedData == k.userKeys[userId]
        fetched == fetchWithRetry(responds, 0)
    IN  IF cachedData.publicKey # Null /\ IsCacheValid(cachedData.timestamp, t)
        THEN [ok |-> TRUE, v |-> cachedData.publicKey, kx |-> k, fetches |-> 0]
        ELSE IF ~fetched.ok
        THEN [ok |-> FALSE, v |-> Null, kx |-> k, fetches |-> fetched.fetches]
        ELSE IF keyData.public_key = Null \/ ~IsValidPublicKey(keyData.public_key)
        THEN [ok |-> FALSE, v |-> Null, kx |-> k, fetches |-> fetched.fetches]
        ELSE [ok |-> TRUE, v |-> keyData.public_key,
              kx |-> [k EXCEPT
                  !.userKeys[userId] =
                      [publicKey |-> keyData.public_key,
                       keyVersion |-> VersionOr1(keyData.key_version),
                       timestamp |-> t],
                  !.keyVersions[userId] = VersionOr1(keyData.key_version)],
              fetches |-> fetched.fetches]

\* KeyExchangeService.getUserPublicKey against the directory d, when the
\* first `fails` fetches of the call fail; the fetch of an unknown user is
\* answered 404 every time
getUserPublicKey(k, d, userId, t, fails) ==
    fetchUserPublicKey(k, d[userId], userId, t,
        [i \in 1..maxRetries |-> i > fails /\ d[userId] # NoRecord])

\* refreshUserKey without the removal of the cached entry
refreshUserKey_NoEviction(k, keyData, userId, t, responds) ==
    fetchUserPublicKey(k, keyData, userId, t, responds)

\* KeyExchangeService.refreshUserKey: the entry and the version of userId
\* are deleted, then getUserPublicKey is called
refreshUserKey(k, keyData, userId, t, responds) ==
    fetchUserPublicKey([k EXCEPT !.userKeys[userId] = NoEntry,
                                 !.keyVersions[userId] = 0],
                       keyData, userId, t, responds)

\* checkKeyRotationNeeded without the comparison of the versions
checkKeyRotationNeeded_NoVersionTest(k, serverKeyData, userId, reached) ==
    LET cachedData == k.userKeys[userId]
    IN  IF ~reached THEN TRUE
        ELSE cachedData # NoEntry /\ ~IsValidPublicKey(cachedData.publicKey)

\* KeyExchangeService.checkKeyRotationNeeded when the fetch of userId's
\* record is answered with serverKeyData, or (reached false) fails
checkKeyRotationNeeded(k, serverKeyData, userId, reached) ==
    LET serverVersion == VersionOr1(serverKeyData.key_version)
        cachedVersion == VersionOr1(k.keyVersions[userId])
        cachedData == k.userKeys[userId]
    IN  IF ~reached THEN TRUE
        ELSE IF serverVersion > cachedVersion THEN TRUE
        ELSE IF cachedData # NoEntry /\ ~IsValidPublicKey(cachedData.publicKey) THEN TRUE
        ELSE FALSE

(***************************************************************************)
(* keyStorageService (specification 4.2)                                   *)
(***************************************************************************)
\* keyStorageService.validateStoredKey: delegates to the key validator
validateStoredKey(store) == validateKeyPair(Null, store.privateKey)

(***************************************************************************)
(* Fresh key pairs.  generateRSAKeyPair returns a pair different from      *)
(* every pair that exists: the n-th pair generated in the process of user  *)
(* u is KeyId(u, n).                                                       *)
(***************************************************************************)
UserIndex(u) == IF u = "alice" THEN 1 ELSE 2
KeyId(u, n) == (2 * (n - 1)) + UserIndex(u)

(***************************************************************************)
(* EncryptionService._performInitialization with the call of               *)
(* KeyExchangeService.initializeKeys inlined, one step per suspension      *)
(* point.  A world W holds what one run reads and writes: the three        *)
(* singletons of the process, the directory and the locals of the run.     *)
(***************************************************************************)
NoAttempt ==
    [pc |-> "none", privateKey |-> Null, existing |-> Null, gen |-> Null,
     retryCount |-> 0, delay |-> 0, body |-> NoRecord, waiters |-> <<>>]

Settled(a) == a.pc \in {"resolved", "rejected"}
InFlight(a) == a.pc \notin {"none", "resolved", "rejected"}

\* the pair generateRSAKeyPair returns in world W, the process of userId
FreshKey(W, userId) == KeyId(userId, W.generated + 1)

\* generateRSAKeyPair has returned a pair
Generated(W) == [W EXCEPT !.generated = W.generated + 1]

\* _performInitialization up to its first await
PerformBegin(W, userId, token) ==
    [W EXCEPT !.enc.currentUserId = userId, !.enc.currentToken = token,
              !.a = [NoAttempt EXCEPT !.pc = "getPriv"]]

\* the catch block of _performInitialization
PerformCatch(W) ==
    [W EXCEPT !.enc.lastError = INITIALIZATION_FAILED, !.enc.isInitialized = FALSE,
              !.a.pc = "rejected"]

\* initializeKeys returned true
PerformReturn(W) ==
    [W EXCEPT !.enc.isInitialized = TRUE, !.enc.lastError = NoError, !.a.pc = "resolved"]

\* the step at W.a.pc is possible with outcome ok of its I/O or generation
CanStep(W, ok) ==
    /\ InFlight(W.a)
    /\ (ok /\ W.a.pc \in {"pgen", "kgen"}) => W.generated + W.elsewhere < MaxKeys
    /\ ~ok => W.faults < MaxFaults

\* the key generation loop of initializeKeys: one pass
KeyGenPass(W, userId, ok, t) ==
    LET keyPair == FreshKey(W, userId)
    IN  IF ok /\ validateKeyPair(keyPair, keyPair)
        THEN [Generated(W) EXCEPT
                       !.kx.myPrivateKey = keyPair, !.kx.myPublicKey = keyPair,
                       !.kx.myKeyVersion = t,
                       !.a.gen = keyPair, !.a.pc = "kstore"]
        ELSE IF W.a.retryCount + 1 >= maxRetries
        THEN PerformCatch(W)
        ELSE [W EXCEPT !.a.retryCount = W.a.retryCount + 1,
                       !.a.delay = retryDelay(W.a.retryCount + 1)]

PerformStepOf(W, userId, ok, t) ==
    CASE W.a.pc = "getPriv" ->
            \* keyStorageService.getPrivateKey(userId)
            IF ~ok THEN PerformCatch(W)
            ELSE [W EXCEPT !.a.privateKey = W.ks.privateKey,
                           !.a.pc = IF W.ks.privateKey # Null THEN "validate" ELSE "pgen"]
      [] W.a.pc = "validate" ->
            \* keyStorageService.validateStoredKey(userId)
            IF ok /\ validateStoredKey(W.ks)
            THEN [W EXCEPT !.a.pc = "kget"]
            ELSE [W EXCEPT !.a.privateKey = Null, !.a.pc = "pgen"]
      [] W.a.pc = "pgen" ->
            \* CryptoService.generateRSAKeyPair()
            IF ~ok THEN PerformCatch(W)
            ELSE [Generated(W) EXCEPT !.a.privateKey = FreshKey(W, userId),
                                      !.a.pc = "pstore"]
      [] W.a.pc = "pstore" ->
            \* keyStorageService.storePrivateKey(userId, privateKey)
            IF ~ok THEN PerformCatch(W)
            ELSE [W EXCEPT !.ks.privateKey = W.a.privateKey, !.a.pc = "kget"]
      [] W.a.pc = "kget" ->
            \* initializeKeys: getPrivateKey and validateKeyPair(null, existing)
            IF ~ok THEN PerformCatch(W)
            ELSE IF W.ks.privateKey # Null /\ validateKeyPair(Null, W.ks.privateKey)
            THEN [W EXCEPT !.kx.myPrivateKey = W.ks.privateKey,
                           !.a.existing = W.ks.privateKey,
                           !.a.pc = "kfetch"]
            ELSE [W EXCEPT !.a.existing = W.ks.privateKey, !.a.pc = "kgen"]
      [] W.a.pc = "kfetch" ->
            \* initializeKeys: _fetchUserKeyFromServer(userId) and the match test
            LET serverKeyData == W.dir[userId]
            IN  IF ok /\ serverKeyData # NoRecord
                      /\ validateKeyPairMatch(serverKeyData.public_key, W.a.existing)
                THEN PerformReturn(
                        [W EXCEPT !.kx.myPublicKey = serverKeyData.public_key,
                                  !.kx.myKeyVersion = VersionOr1(serverKeyData.key_version)])
                ELSE [W EXCEPT !.a.pc = "kgen"]
      [] W.a.pc = "kgen" -> KeyGenPass(W, userId, ok, t)
      [] W.a.pc = "kstore" ->
            \* keyStorageService.storePrivateKey(userId, this.myPrivateKey), then
            \* the upload request is built from this.myPublicKey, this.myKeyVersion
            IF ~ok THEN PerformCatch(W)
            ELSE [W EXCEPT !.ks.privateKey = W.a.gen,
                           !.a.body = [public_key |-> W.kx.myPublicKey,
                                       key_version |-> W.kx.myKeyVersion],
                           !.a.pc = "kupload"]
      [] W.a.pc = "kupload" ->
            \* POST /api/users/<id>/public-key
            IF ~ok THEN PerformCatch(W)
            ELSE PerformReturn([W EXCEPT !.dir[userId] = W.a.body])
      [] OTHER -> W

\* one step, the failure it may inject counted
PerformStep(W, userId, ok, t) ==
    PerformStepOf([W EXCEPT !.faults = IF ok THEN W.faults ELSE W.faults + 1],
                  userId, ok, t)

\* every way one run of _performInitialization can end, from world W on
RECURSIVE PerformRun(_, _, _)
PerformRun(W, userId, t) ==
    IF ~InFlight(W.a) THEN {W}
    ELSE UNION {PerformRun(PerformStep(W, userId, ok, t), userId, t) :
                    ok \in {b \in BOOLEAN : CanStep(W, b)}}

(***************************************************************************)
(* Envelopes                                                               *)
(***************************************************************************)
\* the content field: an AES block when encrypted, else the plain text
CipherContent(c) == [k |-> c.k, b |-> c.b, text |-> <<>>]
PlainContent(m) == [k |-> 0, b |-> [i \in 1..BlockSize |-> 0], text |-> m]

NoEnvelope ==
    [content |-> PlainContent(<<>>), encrypted_aes_key |-> GarbageWrap,
     iv |-> [i \in 1..BlockSize |-> 0], signature |-> NoSignature,
     is_encrypted |-> FALSE, sender_id |-> NoUser]

\* rotated: the recipient has rotated its keys since
NothingSent == [message |-> <<>>, from |-> NoUser, to |-> NoUser, rotated |-> FALSE]

NoCall ==
    [op |-> "none", user |-> NoUser, peer |-> NoUser, text |-> <<>>, altered |-> "none",
     fault |-> "none", status |-> UNAVAILABLE, ok |-> FALSE, result |-> <<>>,
     error |-> NoError, verified |-> "skipped"]

(***************************************************************************)
(* EncryptionService, per process u                                        *)
(***************************************************************************)
\* EncryptionService.isEncryptionAvailable
isEncryptionAvailable(e, k) ==
    /\ e.isInitialized
    /\ e.currentUserId # NoUser
    /\ e.currentToken # NoUser
    /\ k.myPrivateKey # Null

\* EncryptionService.getEncryptionStatus().status
getEncryptionStatus(e, k) ==
    IF e.initializationPromise # 0 THEN INITIALIZING
    ELSE IF isEncryptionAvailable(e, k) THEN AVAILABLE
    ELSE IF e.lastError # NoError THEN ERROR
    ELSE UNAVAILABLE

StatusOf(u) == getEncryptionStatus(enc[u], kx[u])

\* no call of encryptMessage / decryptMessage is handing back its result
Returned == last.op = "none"

\* EncryptionService._getRecipientPublicKey in process (k, s): the key store's
\* public-key cache first, else KeyExchangeService.getUserPublicKey and a
\* write to the cache.  io is the outcome of the key store's I/O.
getRecipientPublicKey(k, s, d, recipientUserId, t, fails, io) ==
    IF ~io THEN [ok |-> FALSE, v |-> Null, kx |-> k, ks |-> s]
    ELSE IF s.publicKeys[recipientUserId] # Null
    THEN [ok |-> TRUE, v |-> s.publicKeys[recipientUserId], kx |-> k, ks |-> s]
    ELSE LET r == getUserPublicKey(k, d, recipientUserId, t, fails)
         IN  IF ~r.ok THEN [ok |-> FALSE, v |-> Null, kx |-> r.kx, ks |-> s]
             ELSE [ok |-> TRUE, v |-> r.v, kx |-> r.kx,
                   ks |-> [s EXCEPT !.publicKeys[recipientUserId] = r.v]]

\* EncryptionService.encryptMessage from the call of _getRecipientPublicKey
\* on, its checks passed: the envelope, or the failure, and the state it
\* leaves.  aesKey and iv are the random values drawn; the private key that
\* signs is read after the lookup.
encryptFromLookup(e, k, s, d, message, recipientUserId, t, aesKey, iv, fails, io) ==
    LET failed(k2, s2) ==
            [ok |-> FALSE, env |-> NoEnvelope, kx |-> k2, ks |-> s2,
             enc |-> [e EXCEPT !.lastError = ENCRYPTION_FAILED]]
        pk == getRecipientPublicKey(k, s, d, recipientUserId, t, fails, io)
        encryptedMessage == encryptWithAES(message, aesKey, iv)
        encryptedAESKey == encryptWithRSA(aesKey, pk.v)
        signature == signWithRSA(message, pk.kx.myPrivateKey)
    IN  IF ~pk.ok THEN failed(pk.kx, pk.ks)
        ELSE IF ~encryptedAESKey.ok THEN failed(pk.kx, pk.ks)
        ELSE IF pk.kx.myPrivateKey = Null THEN failed(pk.kx, pk.ks)
        ELSE IF ~signature.ok THEN failed(pk.kx, pk.ks)
        ELSE [ok |-> TRUE,
              env |-> [content |-> CipherContent(encryptedMessage.encryptedData),
                       encrypted_aes_key |-> encryptedAESKey.v,
                       iv |-> encryptedMessage.iv,
                       signature |-> signature.v,
                       is_encrypted |-> TRUE,
                       sender_id |-> e.currentUserId],
              kx |-> pk.kx, ks |-> pk.ks,
              enc |-> [e EXCEPT !.lastError = NoError]]

\* the checks encryptMessage makes before its first await
encryptChecks(e, k, message, recipientUserId) ==
    /\ isEncryptionAvailable(e, k)
    /\ message # <<>>
    /\ recipientUserId # NoUser

\* EncryptionService.encryptMessage: the envelope, or the failure, and the
\* state it leaves
encryptMessage(e, k, s, d, message, recipientUserId, t, aesKey, iv, fails, io) ==
    IF ~encryptChecks(e, k, message, recipientUserId)
    THEN [ok |-> FALSE, env |-> NoEnvelope, kx |-> k, ks |-> s,
          enc |-> [e EXCEPT !.lastError = ENCRYPTION_FAILED]]
    ELSE encryptFromLookup(e, k, s, d, message, recipientUserId, t, aesKey, iv,
                           fails, io)

\* _verifyMessageSignature checking against the verifier's own public key
verifyMessageSignature_OwnKey(e, k, s, d, message, signature, senderUserId, t, fails, io) ==
    LET isValid == verifyRSASignature(message, signature, k.myPublicKey)
    IN  [isValid |-> isValid, kx |-> k, ks |-> s,
         enc |-> IF isValid THEN e
                 ELSE [e EXCEPT !.lastError = SIGNATURE_VERIFICATION_FAILED]]

\* EncryptionService._verifyMessageSignature: the verdict and the state left
verifyMessageSignature(e, k, s, d, message, signature, senderUserId, t, fails, io) ==
    LET pk == getRecipientPublicKey(k, s, d, senderUserId, t, fails, io)
        isValid == pk.ok /\ verifyRSASignature(message, signature, pk.v)
    IN  [isValid |-> isValid, kx |-> pk.kx, ks |-> pk.ks,
         enc |-> IF isValid THEN e
                 ELSE [e EXCEPT !.lastError = SIGNATURE_VERIFICATION_FAILED]]

\* EncryptionService.decryptMessage, its catch block: the failure and the
\* state it leaves
decryptFailed(e, k, s) ==
    [ok |-> FALSE, text |-> <<>>, kx |-> k, ks |-> s, verified |-> "skipped",
     enc |-> [e EXCEPT !.lastError = DECRYPTION_FAILED]]

\* decryptMessage from the key unwrap on, without the signature check
decryptEnvelope_NeverVerifies(e, k, s, d, encryptedData, senderUserId, t, fails, io) ==
    LET aesKey == decryptWithRSA(encryptedData.encrypted_aes_key, k.myPrivateKey)
        decryptedMessage ==
            IF aesKey.ok
            THEN decryptWithAES(encryptedData.content, encryptedData.iv, aesKey.v)
            ELSE Fail
    IN  IF ~aesKey.ok THEN decryptFailed(e, k, s)
        ELSE IF ~decryptedMessage.ok THEN decryptFailed(e, k, s)
        ELSE [ok |-> TRUE, text |-> decryptedMessage.v, kx |-> k, ks |-> s,
              verified |-> "skipped",
              enc |-> [e EXCEPT !.lastError = NoError]]

\* EncryptionService.decryptMessage from the key unwrap on: the plain text,
\* or the failure, and the state it leaves; verified tells what the
\* signature check found
decryptEnvelope(e, k, s, d, encryptedData, senderUserId, t, fails, io) ==
    LET aesKey == decryptWithRSA(encryptedData.encrypted_aes_key, k.myPrivateKey)
        decryptedMessage ==
            IF aesKey.ok
            THEN decryptWithAES(encryptedData.content, encryptedData.iv, aesKey.v)
            ELSE Fail
        check == verifyMessageSignature(e, k, s, d, decryptedMessage.v,
                     encryptedData.signature, senderUserId, t, fails, io)
    IN  IF ~aesKey.ok THEN decryptFailed(e, k, s)
        ELSE IF ~decryptedMessage.ok THEN decryptFailed(e, k, s)
        ELSE IF encryptedData.signature # NoSignature /\ senderUserId # NoUser
        THEN [ok |-> TRUE, text |-> decryptedMessage.v,
              kx |-> check.kx, ks |-> check.ks,
              verified |-> IF check.isValid THEN "valid" ELSE "invalid",
              enc |-> [check.enc EXCEPT !.lastError = NoError]]
        ELSE [ok |-> TRUE, text |-> decryptedMessage.v, kx |-> k, ks |-> s,
              verified |-> "skipped",
              enc |-> [e EXCEPT !.lastError = NoError]]

\* decryptMessage with the availability test moved before the test of
\* is_encrypted
decryptMessage_AvailabilityFirst(e, k, s, d, encryptedData, senderUserId, t, fails, io) ==
    IF encryptedData = NoEnvelope THEN decryptFailed(e, k, s)
    ELSE IF ~isEncryptionAvailable(e, k) THEN decryptFailed(e, k, s)
    ELSE IF ~encryptedData.is_encrypted
    THEN [ok |-> TRUE, text |-> encryptedData.content.text, kx |-> k, ks |-> s,
          verified |-> "skipped", enc |-> e]
    ELSE decryptEnvelope(e, k, s, d, encryptedData, senderUserId, t, fails, io)

\* EncryptionService.decryptMessage: the plain text, or the failure, and the
\* state it leaves
decryptMessage(e, k, s, d, encryptedData, senderUserId, t, fails, io) ==
    IF encryptedData = NoEnvelope THEN decryptFailed(e, k, s)
    ELSE IF ~encryptedData.is_encrypted
    THEN [ok |-> TRUE, text |-> encryptedData.content.text, kx |-> k, ks |-> s,
          verified |-> "skipped", enc |-> e]
    ELSE IF ~isEncryptionAvailable(e, k) THEN decryptFailed(e, k, s)
    ELSE decryptEnvelope(e, k, s, d, encryptedData, senderUserId, t, fails, io)

(***************************************************************************)
(* Specification Spec: two users, atomic handlers, envelopes in transit    *)
(***************************************************************************)
\* a caller slot with no call of initialize / refreshKeys in progress
IdleCall == [pc |-> "idle", op |-> "none", own |-> FALSE]

Init ==
    /\ enc = [u \in Users |-> NewEncryptionService]
    /\ kx = [u \in Users |-> NewKeyExchangeService]
    /\ ks = [u \in Users |-> NewKeyStore]
    /\ directory = [u \in Users |-> NoRecord]
    /\ now = 1
    /\ faults = 0
    /\ generated = [u \in Users |-> 0]
    /\ att = [c \in Callers |-> NoAttempt]
    /\ call = [c \in Callers |-> IdleCall]
    /\ mq = <<>>
    /\ wire = NoEnvelope
    /\ sent = NothingSent
    /\ last = NoCall

\* key pairs generated in the processes of the users other than u
GeneratedElsewhere(u) == generated[CHOOSE v \in Users \ {u} : TRUE]

\* the world process u runs in, with the locals a of one initialization run
WorldOf(u, a) ==
    [enc |-> enc[u], kx |-> kx[u], ks |-> ks[u], dir |-> directory, faults |-> faults,
     generated |-> generated[u], elsewhere |-> GeneratedElsewhere(u), a |-> a]

\* the variables of process u and the directory become those of world W
Install(u, W) ==
    /\ enc' = [enc EXCEPT ![u] = W.enc]
    /\ kx' = [kx EXCEPT ![u] = W.kx]
    /\ ks' = [ks EXCEPT ![u] = W.ks]
    /\ directory' = W.dir
    /\ faults' = W.faults
    /\ generated' = [generated EXCEPT ![u] = W.generated]

\* the runs of _performInitialization from world W on in which no I/O fails
\* (SpecInit takes the runs step by step, failures included)
CleanRun(W, userId, t) == {X \in PerformRun(W, userId, t) : X.faults = W.faults}

\* EncryptionService.initialize(u, token) run to completion
Initialize(u) ==
    /\ Returned
    /\ enc[u].initializationPromise = 0
    /\ \E W \in CleanRun(PerformBegin(WorldOf(u, NoAttempt), u, TokenOf(u)),
                         u, now) :
            Install(u, W)
    /\ last' = NoCall
    /\ UNCHANGED <<now, att, call, mq, wire, sent>>

\* the catch block of refreshKeys
RefreshCatch(e) == [e EXCEPT !.lastError = KEY_GENERATION_FAILED]

\* refreshKeys without the call of clearPrivateKey
RefreshCleared_KeepsStoredKey(W) == [W EXCEPT !.kx = clearCache(W.kx)]

\* the part of refreshKeys after clearPrivateKey returned: clearCache, then
\* the call of initialize
RefreshCleared(W) == [W EXCEPT !.ks.privateKey = Null, !.kx = clearCache(W.kx)]

\* EncryptionService.refreshKeys() run to completion; Date.now() reads t
RefreshKeysAt(u, t) ==
    /\ Returned
    /\ enc[u].initializationPromise = 0
    /\ IF enc[u].currentUserId = NoUser \/ enc[u].currentToken = NoUser
       THEN /\ enc' = [enc EXCEPT ![u] = RefreshCatch(enc[u])]
            /\ UNCHANGED <<kx, ks, directory, faults, generated, sent>>
       ELSE \E W \in CleanRun(
                        PerformBegin(RefreshCleared(WorldOf(u, NoAttempt)),
                                     enc[u].currentUserId, enc[u].currentToken),
                        u, t) :
                /\ Install(u, IF W.a.pc = "rejected"
                              THEN [W EXCEPT !.enc = RefreshCatch(W.enc)]
                              ELSE W)
                /\ sent' = IF W.a.pc = "resolved" /\ sent.to = u
                           THEN [sent EXCEPT !.rotated = TRUE]
                           ELSE sent
    /\ last' = NoCall
    /\ UNCHANGED <<att, call, mq, wire>>

\* refreshKeys within one reading of the clock
RefreshKeys(u) ==
    /\ RefreshKeysAt(u, now)
    /\ UNCHANGED now

\* refreshKeys that returns at a later reading t of the clock
RefreshKeysLater(u) ==
    /\ now < MaxTime
    /\ \E t \in (now + 1)..MaxTime :
        /\ RefreshKeysAt(u, t)
        /\ now' = t

\* what can go wrong in one call: nothing, the network (every fetch of the
\* call fails) or the key store's I/O
FaultsNow == IF faults < MaxFaults THEN {"none", "net", "io"} ELSE {"none"}
FailsOf(fault) == IF fault = "net" THEN maxRetries ELSE 0

\* process u calls encryptMessage(message, recipientUserId); the hook puts the
\* envelope it returns on the wire
EncryptMessage(u, message, recipientUserId) ==
    /\ Returned
    /\ \E aesKey \in DrawnAesKeys, iv \in DrawnIVs, fault \in FaultsNow :
        LET r == encryptMessage(enc[u], kx[u], ks[u], directory, message,
                                recipientUserId, now, aesKey, iv,
                                FailsOf(fault), fault # "io")
        IN  /\ faults' = IF fault = "none" THEN faults ELSE faults + 1
            /\ enc' = [enc EXCEPT ![u] = r.enc]
            /\ kx' = [kx EXCEPT ![u] = r.kx]
            /\ ks' = [ks EXCEPT ![u] = r.ks]
            /\ wire' = IF r.ok THEN r.env ELSE wire
            /\ sent' = IF r.ok
                       THEN [message |-> message, from |-> u, to |-> recipientUserId,
                             rotated |-> FALSE]
                       ELSE sent
            /\ last' = [op |-> "encrypt", user |-> u, peer |-> recipientUserId,
                        text |-> message, altered |-> "none", fault |-> fault,
                        status |-> StatusOf(u), ok |-> r.ok, result |-> <<>>,
                        error |-> IF r.ok THEN NoError ELSE r.enc.lastError,
                        verified |-> "skipped"]
            /\ UNCHANGED <<directory, now, generated, att, call, mq>>

\* values whoever carries an envelope can put in place of a field
TamperedContents(c) ==
    {CipherContent(GarbageContent)} \cup {[c EXCEPT !.k = k2] : k2 \in AesKeys}
TamperedWraps(w) ==
    {GarbageWrap} \cup {[w EXCEPT !.key = k2] : k2 \in AesKeys}
        \cup {[w EXCEPT !.to = directory[v].public_key] : v \in Users}
TamperedSignatures(g) == {GarbageSignature, NoSignature}

\* the envelopes that differ from e in one field
Altered(e) ==
    {[e EXCEPT !.content = c] : c \in TamperedContents(e.content) \ {e.content}}
        \cup {[e EXCEPT !.encrypted_aes_key = w] :
                    w \in TamperedWraps(e.encrypted_aes_key) \ {e.encrypted_aes_key}}
        \cup {[e EXCEPT !.iv = iv] : iv \in IVs \ {e.iv}}
        \cup {[e EXCEPT !.signature = g] :
                    g \in TamperedSignatures(e.signature) \ {e.signature}}

\* what can arrive for the envelope in transit: the envelope, or an
\* encrypted envelope altered on the way
Delivered == {wire} \cup (IF wire.is_encrypted THEN Altered(wire) ELSE {})

\* the field in which the envelope e differs from the one in transit
AlteredField(e) ==
    IF e.content # wire.content THEN "content"
    ELSE IF e.encrypted_aes_key # wire.encrypted_aes_key THEN "encrypted_aes_key"
    ELSE IF e.iv # wire.iv THEN "iv"
    ELSE IF e.signature # wire.signature THEN "signature"
    ELSE "none"

\* process u calls decryptMessage(encryptedData, senderUserId)
DecryptMessage(u, senderUserId, encryptedData) ==
    /\ Returned
    /\ \E fault \in FaultsNow :
        LET r == decryptMessage(enc[u], kx[u], ks[u], directory, encryptedData,
                                senderUserId, now, FailsOf(fault), fault # "io")
        IN  /\ faults' = IF fault = "none" THEN faults ELSE faults + 1
            /\ enc' = [enc EXCEPT ![u] = r.enc]
            /\ kx' = [kx EXCEPT ![u] = r.kx]
            /\ ks' = [ks EXCEPT ![u] = r.ks]
            /\ last' = [op |-> "decrypt", user |-> u, peer |-> senderUserId,
                        text |-> <<>>, altered |-> AlteredField(encryptedData), fault |-> fault,
                        status |-> StatusOf(u), ok |-> r.ok, result |-> r.text,
                        error |-> IF r.ok THEN NoError ELSE r.enc.lastError,
                        verified |-> r.verified]
            /\ UNCHANGED <<directory, now, generated, att, call, mq, wire, sent>>

\* the hook's fallback: user u sends the text unencrypted
SendPlain(u, message) ==
    /\ Returned
    /\ wire' = [NoEnvelope EXCEPT !.content = PlainContent(message), !.sender_id = u]
    /\ sent' = NothingSent
    /\ last' = NoCall
    /\ UNCHANGED <<enc, kx, ks, directory, now, faults, generated, att, call, mq>>

\* the caller has taken the result of the call
Return ==
    /\ ~Returned
    /\ last' = NoCall
    /\ UNCHANGED <<enc, kx, ks, directory, now, faults, generated, att, call, mq, wire, sent>>

Next ==
    \/ \E u \in Users : Initialize(u)
    \/ \E u \in Users : RefreshKeys(u)
    \/ \E u \in Users, m \in Strings : \E r \in Users \ {u} : EncryptMessage(u, m, r)
    \/ \E u \in Users, e \in Delivered : \E v \in {e.sender_id, NoUser} :
            DecryptMessage(u, v, e)
    \/ \E u \in Users, m \in Strings : SendPlain(u, m)
    \/ Return

Spec == Init /\ [][Next]_vars

(***************************************************************************)
(* Specification SpecInit: the process of one user, with initialize and    *)
(* refreshKeys taken one await at a time.  Continuations run as jobs of    *)
(* the microtask queue mq, first in first out; a job runs to its next      *)
(* await.  Another user has registered a key before.                       *)
(***************************************************************************)
Me == "alice"
Peer == "bob"

\* jobs: a call of initialize / refreshKeys some code is about to make, the
\* continuation of attempt c after an await, the continuation of call c after
\* `await this.initializationPromise`, after `await clearPrivateKey(...)` and
\* after `await this.initialize(...)`
CallJob(op) == [kind |-> "call", op |-> op, c |-> 0, ok |-> TRUE]
ContJob(c, ok) == [kind |-> "cont", op |-> "none", c |-> c, ok |-> ok]
ReactJob(c, ok) == [kind |-> "react", op |-> "none", c |-> c, ok |-> ok]
ClearedJob(c, ok) == [kind |-> "cleared", op |-> "none", c |-> c, ok |-> ok]
ReturnJob(c, ok) == [kind |-> "return", op |-> "none", c |-> c, ok |-> ok]

\* the process of Me as one record, and the world of attempt a in it
ProcessOf ==
    [enc |-> enc[Me], kx |-> kx[Me], ks |-> ks[Me], dir |-> directory,
     faults |-> faults, generated |-> generated[Me], att |-> att, call |-> call,
     mq |-> mq]
WorldIn(P, a) ==
    [enc |-> P.enc, kx |-> P.kx, ks |-> P.ks, dir |-> P.dir, faults |-> P.faults,
     generated |-> P.generated, elsewhere |-> GeneratedElsewhere(Me), a |-> a]
Landed(P, W) ==
    [P EXCEPT !.enc = W.enc, !.kx = W.kx, !.ks = W.ks, !.dir = W.dir,
              !.faults = W.faults, !.generated = W.generated]
Become(P) ==
    /\ Install(Me, WorldIn(P, NoAttempt))
    /\ att' = P.att
    /\ call' = P.call
    /\ mq' = P.mq

\* the other user has initialized and since rotated its keys once: the world
\* of its process after initialize, and after refreshKeys
PeerInitialized ==
    CHOOSE W \in CleanRun(
                    PerformBegin([enc |-> NewEncryptionService,
                                  kx |-> NewKeyExchangeService, ks |-> NewKeyStore,
                                  dir |-> [u \in Users |-> NoRecord], faults |-> 0,
                                  generated |-> 0, elsewhere |-> 0, a |-> NoAttempt],
                                 Peer, TokenOf(Peer)),
                    Peer, 1) :
        W.a.pc = "resolved"
PeerReady ==
    CHOOSE W \in CleanRun(
                    PerformBegin(RefreshCleared([PeerInitialized EXCEPT !.a = NoAttempt]),
                                 Peer, TokenOf(Peer)),
                    Peer, 1) :
        W.a.pc = "resolved"

InitI ==
    /\ enc = [u \in Users |-> IF u = Peer THEN PeerReady.enc ELSE NewEncryptionService]
    /\ kx = [u \in Users |-> IF u = Peer THEN PeerReady.kx ELSE NewKeyExchangeService]
    /\ ks = [u \in Users |-> IF u = Peer THEN PeerReady.ks ELSE NewKeyStore]
    /\ directory = PeerReady.dir
    /\ now = 1
    /\ faults = 0
    /\ generated = [u \in Users |-> IF u = Peer THEN PeerReady.generated ELSE 0]
    /\ att = [c \in Callers |-> NoAttempt]
    /\ call = [c \in Callers |-> IdleCall]
    /\ mq = <<>>
    /\ wire = NoEnvelope
    /\ sent = NothingSent
    /\ last = NoCall

\* EncryptionService.initialize entered by call c (of operation op), up to
\* its await
initializeEnter(P, c, op) ==
    LET p == P.enc.initializationPromise
    IN  IF p # 0
        THEN IF Settled(P.att[p])
             THEN [P EXCEPT !.mq = Append(@, ReactJob(c, P.att[p].pc = "resolved")),
                            !.call[c] = [pc |-> "react", op |-> op, own |-> FALSE]]
             ELSE [P EXCEPT !.att[p].waiters = Append(@, c),
                            !.call[c] = [pc |-> "init", op |-> op, own |-> FALSE]]
        ELSE LET W == PerformBegin(WorldIn(P, NoAttempt), Me, TokenOf(Me))
             IN  [Landed(P, W) EXCEPT
                     !.enc.initializationPromise = c,
                     !.att[c] = [W.a EXCEPT !.waiters = <<c>>],
                     !.call[c] = [pc |-> "init", op |-> op, own |-> TRUE]]

\* EncryptionService.initialize resumed in call c with the outcome ok of the
\* promise it awaited
initializeResume(P, c, ok) ==
    IF ok /\ ~P.call[c].own THEN P
    ELSE [P EXCEPT !.enc.initializationPromise = 0]

\* the promise of attempt c settles: the calls awaiting it are resumed, in the
\* order they began to wait
Settle(P, c) ==
    LET ws == P.att[c].waiters
    IN  [P EXCEPT !.mq = @ \o [i \in 1..Len(ws) |->
                                    ReactJob(ws[i], P.att[c].pc = "resolved")],
                  !.call = [w \in Callers |->
                                IF \E i \in 1..Len(ws) : ws[i] = w
                                THEN [P.call[w] EXCEPT !.pc = "react"]
                                ELSE P.call[w]],
                  !.att[c].waiters = <<>>]

Jobs(kind) == {i \in 1..Len(mq) : mq[i].kind = kind}
Busy == {c \in Callers : call[c].pc # "idle"}
\* the calls that are still in progress once the jobs now queued have run
StillBusy ==
    {c \in Busy : ~(call[c].pc = "react" /\ call[c].op = "initialize")
                      /\ call[c].pc # "return"}
FreeSlot == CHOOSE c \in Callers \ Busy : \A d \in Callers \ Busy : c <= d
Popped(P) == [P EXCEPT !.mq = Tail(@)]

\* some code queues a call of initialize or of refreshKeys
ScheduleCall(op) ==
    /\ Returned
    /\ Cardinality(Jobs("call")) + Cardinality(StillBusy) < NCallers
    /\ mq' = Append(mq, CallJob(op))
    /\ last' = NoCall
    /\ UNCHANGED <<enc, kx, ks, directory, now, faults, generated, att, call, wire, sent>>

\* what attempt c awaits (key store I/O, key generation, the network)
\* completes, well or not: its continuation is queued
Complete(c, ok) ==
    /\ Returned
    /\ CanStep(WorldIn(ProcessOf, att[c]), ok)
    /\ \A i \in Jobs("cont") : mq[i].c # c
    /\ mq' = Append(mq, ContJob(c, ok))
    /\ faults' = IF ok THEN faults ELSE faults + 1
    /\ last' = NoCall
    /\ UNCHANGED <<enc, kx, ks, directory, now, generated, att, call, wire, sent>>

\* keyStorageService.clearPrivateKey awaited by refreshKeys in call c
\* completes, well or not
CompleteClear(c, ok) ==
    /\ Returned
    /\ call[c].pc = "clear"
    /\ ~ok => faults < MaxFaults
    /\ mq' = Append(mq, ClearedJob(c, ok))
    /\ call' = [call EXCEPT ![c].pc = "cleared"]
    /\ faults' = IF ok THEN faults ELSE faults + 1
    /\ last' = NoCall
    /\ UNCHANGED <<enc, kx, ks, directory, now, generated, att, wire, sent>>

\* the queued call runs: initialize up to its await, or refreshKeys up to
\* its await of clearPrivateKey
RunCall ==
    /\ Returned
    /\ mq # <<>>
    /\ Head(mq).kind = "call"
    /\ \E R \in {LET P == Popped(ProcessOf)
                      c == FreeSlot
                      op == Head(mq).op
                  IN  IF op = "initialize" THEN initializeEnter(P, c, op)
                      ELSE IF P.enc.currentUserId = NoUser \/ P.enc.currentToken = NoUser
                      THEN [P EXCEPT !.enc = RefreshCatch(@)]
                      ELSE [P EXCEPT !.call[c] = [IdleCall EXCEPT !.pc = "clear", !.op = op]]} :
          Become(R)
    /\ last' = NoCall
    /\ UNCHANGED <<now, wire, sent>>

\* _performInitialization of attempt c resumes after its await and runs to
\* the next one, or to its end
RunCont ==
    /\ Returned
    /\ mq # <<>>
    /\ Head(mq).kind = "cont"
    /\ \E P \in {Popped(ProcessOf)} :
       \E V \in {WorldIn(P, P.att[Head(mq).c])} :
       \E W \in {PerformStepOf(V, Me, Head(mq).ok, now)} :
       \E R \in {LET c == Head(mq).c
                      Q == [Landed(P, W) EXCEPT !.att[c] = W.a]
                  IN  IF Settled(W.a) THEN Settle(Q, c) ELSE Q} : Become(R)
    /\ last' = NoCall
    /\ UNCHANGED <<now, wire, sent>>

\* initialize resumes in call c after `await this.initializationPromise`
RunReact ==
    /\ Returned
    /\ mq # <<>>
    /\ Head(mq).kind = "react"
    /\ \E R \in {LET P == Popped(ProcessOf)
                      c == Head(mq).c
                      Q == initializeResume(P, c, Head(mq).ok)
                  IN  IF P.call[c].op = "initialize"
                      THEN [Q EXCEPT !.call[c] = IdleCall]
                      ELSE [Q EXCEPT !.mq = Append(@, ReturnJob(c, Head(mq).ok)),
                                     !.call[c].pc = "return"]} :
          Become(R)
    /\ last' = NoCall
    /\ UNCHANGED <<now, wire, sent>>

\* refreshKeys resumes in call c after `await clearPrivateKey`: clearCache
\* and the call of initialize, or the catch block
RunCleared ==
    /\ Returned
    /\ mq # <<>>
    /\ Head(mq).kind = "cleared"
    /\ LET P == Popped(ProcessOf)
           c == Head(mq).c
       IN  Become(IF Head(mq).ok
                  THEN initializeEnter(
                           Landed(P, RefreshCleared(WorldIn(P, NoAttempt))),
                           c, "refreshKeys")
                  ELSE [P EXCEPT !.enc = RefreshCatch(@), !.call[c] = IdleCall])
    /\ last' = NoCall
    /\ UNCHANGED <<now, wire, sent>>

\* refreshKeys resumes in call c after `await this.initialize(...)`
RunReturn ==
    /\ Returned
    /\ mq # <<>>
    /\ Head(mq).kind = "return"
    /\ LET P == Popped(ProcessOf)
           c == Head(mq).c
       IN  Become(IF Head(mq).ok
                  THEN [P EXCEPT !.call[c] = IdleCall]
                  ELSE [P EXCEPT !.enc = RefreshCatch(@), !.call[c] = IdleCall])
    /\ last' = NoCall
    /\ UNCHANGED <<now, wire, sent>>

\* the message Me sends to Peer
Hello == [i \in 1..MaxLen |-> 1]

NextI ==
    \/ \E op \in {"initialize", "refreshKeys"} : ScheduleCall(op)
    \/ \E c \in Callers, ok \in BOOLEAN : Complete(c, ok)
    \/ \E c \in Callers, ok \in BOOLEAN : CompleteClear(c, ok)
    \/ RunCall
    \/ RunCont
    \/ RunReact
    \/ RunCleared
    \/ RunReturn
    \/ EncryptMessage(Me, Hello, Peer)
    \/ Return

SpecInit == InitI /\ [][NextI]_vars

(***************************************************************************)
(* Specification SpecCache: the key cache of one process against the       *)
(* clock.  Me and Peer have initialized; Me looks up Peer's key, directly  *)
(* (getUserPublicKey) and by encrypting, while time passes.                *)
(***************************************************************************)
\* the world of Me's process after initialize, Peer having registered
MeReady ==
    CHOOSE W \in CleanRun(
                    PerformBegin([enc |-> NewEncryptionService,
                                  kx |-> NewKeyExchangeService, ks |-> NewKeyStore,
                                  dir |-> PeerInitialized.dir, faults |-> 0,
                                  generated |-> 0,
                                  elsewhere |-> PeerInitialized.generated,
                                  a |-> NoAttempt],
                                 Me, TokenOf(Me)),
                    Me, 1) :
        W.a.pc = "resolved"

InitC ==
    /\ enc = [u \in Users |-> IF u = Me THEN MeReady.enc ELSE PeerInitialized.enc]
    /\ kx = [u \in Users |-> IF u = Me THEN MeReady.kx ELSE PeerInitialized.kx]
    /\ ks = [u \in Users |-> IF u = Me THEN MeReady.ks ELSE PeerInitialized.ks]
    /\ directory = MeReady.dir
    /\ now = 1
    /\ faults = 0
    /\ generated = [u \in Users |-> IF u = Me THEN MeReady.generated
                                    ELSE PeerInitialized.generated]
    /\ att = [c \in Callers |-> NoAttempt]
    /\ call = [c \in Callers |-> IdleCall]
    /\ mq = <<>>
    /\ wire = NoEnvelope
    /\ sent = NothingSent
    /\ last = NoCall

\* time passes: one tick of the clock (15 minutes)
Tick ==
    /\ Returned
    /\ now < MaxTime
    /\ now' = now + 1
    /\ last' = NoCall
    /\ UNCHANGED <<enc, kx, ks, directory, faults, generated, att, call, mq, wire, sent>>

\* what the directory server can answer to a fetch of userId's key: the
\* record it holds, a body without a key, a body whose key is no PEM
Answers(userId) ==
    {directory[userId], [public_key |-> Null, key_version |-> 1],
     [public_key |-> MalformedPem, key_version |-> 1]}

\* which of the fetches of one call get a response
Responses == [1..maxRetries -> BOOLEAN]

\* process u calls keyExchangeService.getUserPublicKey(userId, token)
GetUserPublicKey(u, userId, responds, keyData) ==
    /\ Returned
    /\ LET r == fetchUserPublicKey(kx[u], keyData, userId, now, responds)
       IN  /\ kx' = [kx EXCEPT ![u] = r.kx]
           /\ last' = [op |-> "getUserPublicKey", user |-> u, peer |-> userId,
                       responds |-> responds, keyData |-> keyData,
                       before |-> kx[u], ok |-> r.ok,
                       result |-> r.v, fetches |-> r.fetches]
    /\ UNCHANGED <<enc, ks, directory, now, faults, generated, att, call, mq, wire, sent>>

\* process u calls keyExchangeService.refreshUserKey(userId, token)
RefreshUserKey(u, userId, responds, keyData) ==
    /\ Returned
    /\ LET r == refreshUserKey(kx[u], keyData, userId, now, responds)
       IN  /\ kx' = [kx EXCEPT ![u] = r.kx]
           /\ last' = [op |-> "refreshUserKey", user |-> u, peer |-> userId,
                       responds |-> responds, keyData |-> keyData,
                       before |-> kx[u], ok |-> r.ok,
                       result |-> r.v, fetches |-> r.fetches]
    /\ UNCHANGED <<enc, ks, directory, now, faults, generated, att, call, mq, wire, sent>>

\* process u calls keyExchangeService.checkKeyRotationNeeded(userId, token)
CheckKeyRotationNeeded(u, userId, reached, keyData) ==
    /\ Returned
    /\ last' = [op |-> "checkKeyRotationNeeded", user |-> u, peer |-> userId,
                reached |-> reached, keyData |-> keyData, before |-> kx[u],
                result |-> checkKeyRotationNeeded(kx[u], keyData, userId, reached)]
    /\ UNCHANGED <<enc, kx, ks, directory, now, faults, generated, att, call, mq, wire, sent>>

NextC ==
    \/ Tick
    \/ \E responds \in Responses, keyData \in Answers(Peer) :
            GetUserPublicKey(Me, Peer, responds, keyData)
    \/ \E responds \in Responses, keyData \in Answers(Peer) :
            RefreshUserKey(Me, Peer, responds, keyData)
    \/ \E reached \in BOOLEAN, keyData \in Answers(Peer) :
            CheckKeyRotationNeeded(Me, Peer, reached, keyData)
    \/ RefreshKeysLater(Peer)
    \/ EncryptMessage(Me, Hello, Peer)
    \/ Return

SpecCache == InitC /\ [][NextC]_vars

\* process u calls keyExchangeService.clearCache()
ClearCache(u) ==
    /\ Returned
    /\ kx' = [kx EXCEPT ![u] = clearCache(kx[u])]
    /\ last' = [op |-> "clearCache", user |-> u, before |-> kx[u]]
    /\ UNCHANGED <<enc, ks, directory, now, faults, generated, att, call, mq, wire, sent>>

\* Specification SpecMaps: SpecCache with calls of clearCache among the
\* others
NextM == NextC \/ ClearCache(Me)

SpecMaps == InitC /\ [][NextM]_vars

(***************************************************************************)
(* Specification SpecKeys: a new session of Me.  The singletons are fresh; *)
(* the key store (persisted) and the directory hold what earlier sessions, *)
(* other devices or a corruption of the storage left there.  initialize    *)
(* and refreshKeys run to completion, I/O failures included.               *)
(***************************************************************************)
\* key pairs of Me that exist before the session
OldKeys == 2

\* what the key store can hold for Me: nothing, bytes that are no PEM, a PEM
\* that is no key, the private key of an old pair
StoredKeys == {Null, MalformedPem, GarbagePem, KeyId(Me, 1)}

\* what the directory can hold for Me: nothing, or the public key of an old
\* pair
Published ==
    {NoRecord} \cup {[public_key |-> KeyId(Me, n), key_version |-> 1] : n \in 1..OldKeys}

InitK ==
    /\ enc = [u \in Users |-> NewEncryptionService]
    /\ kx = [u \in Users |-> NewKeyExchangeService]
    /\ \E stored \in StoredKeys :
            ks = [u \in Users |-> IF u = Me THEN [NewKeyStore EXCEPT !.privateKey = stored]
                                  ELSE NewKeyStore]
    /\ \E record \in Published :
            directory = [u \in Users |-> IF u = Me THEN record ELSE NoRecord]
    /\ now = 1
    /\ faults = 0
    /\ generated = [u \in Users |-> IF u = Me THEN OldKeys ELSE 0]
    /\ att = [c \in Callers |-> NoAttempt]
    /\ call = [c \in Callers |-> IdleCall]
    /\ mq = <<>>
    /\ wire = NoEnvelope
    /\ sent = NothingSent
    /\ last = NoCall

\* EncryptionService.initialize(u, token) run to completion, whatever fails;
\* before is the world it began in, a the locals of the run at its end
InitializeAny(u) ==
    /\ Returned
    /\ enc[u].initializationPromise = 0
    /\ \E W \in PerformRun(PerformBegin(WorldOf(u, NoAttempt), u, TokenOf(u)), u, now) :
            /\ Install(u, W)
            /\ last' = [op |-> "initialize", user |-> u,
                        before |-> WorldOf(u, NoAttempt), a |-> W.a]
    /\ UNCHANGED <<now, att, call, mq, wire, sent>>

\* EncryptionService.refreshKeys() run to completion, whatever fails
RefreshKeysAny(u) ==
    /\ Returned
    /\ enc[u].initializationPromise = 0
    /\ IF enc[u].currentUserId = NoUser \/ enc[u].currentToken = NoUser
       THEN /\ enc' = [enc EXCEPT ![u] = RefreshCatch(enc[u])]
            /\ last' = [op |-> "refreshKeys", user |-> u,
                        before |-> WorldOf(u, NoAttempt), a |-> NoAttempt]
            /\ UNCHANGED <<kx, ks, directory, faults, generated>>
       ELSE \/ \E W \in PerformRun(
                            PerformBegin(RefreshCleared(WorldOf(u, NoAttempt)),
                                         enc[u].currentUserId, enc[u].currentToken),
                            u, now) :
                    /\ Install(u, IF W.a.pc = "rejected"
                                  THEN [W EXCEPT !.enc = RefreshCatch(W.enc)]
                                  ELSE W)
                    /\ last' = [op |-> "refreshKeys", user |-> u,
                                before |-> WorldOf(u, NoAttempt), a |-> W.a]
            \/ \* keyStorageService.clearPrivateKey rejects
               /\ faults < MaxFaults
               /\ faults' = faults + 1
               /\ enc' = [enc EXCEPT ![u] = RefreshCatch(enc[u])]
               /\ last' = [op |-> "refreshKeys", user |-> u,
                           before |-> WorldOf(u, NoAttempt), a |-> NoAttempt]
               /\ UNCHANGED <<kx, ks, directory, generated>>
    /\ UNCHANGED <<now, att, call, mq, wire, sent>>

NextK ==
    \/ InitializeAny(Me)
    \/ RefreshKeysAny(Me)
    \/ Return

SpecKeys == InitK /\ [][NextK]_vars

(***************************************************************************)
(* Specification SpecStore: the first session of Me, alone, with           *)
(* initialize taken one await at a time as in SpecInit.                    *)
(***************************************************************************)
NextS ==
    \/ ScheduleCall("initialize")
    \/ \E c \in Callers, ok \in BOOLEAN : Complete(c, ok)
    \/ RunCall
    \/ RunCont
    \/ RunReact

SpecStore == Init /\ [][NextS]_vars

(***************************************************************************)
(* Specification SpecLive: calls of initialize, step by step as in         *)
(* SpecStore, under the assumption that every key                          *)
(* store call, key generation and directory request eventually returns,    *)
(* well or not, and that the event loop runs the jobs queued.  Calls are   *)
(* made only while the key pairs they may generate are within MaxKeys, so  *)
(* that no run waits for a pair the model cannot supply.                   *)
(***************************************************************************)
\* key pairs one run of _performInitialization generates at most when it
\* ends well: one in _performInitialization, one in initializeKeys
PairsPerRun == 2

\* the calls queued or in progress that may still run _performInitialization
Outstanding == Cardinality(Jobs("call")) + Cardinality(StillBusy)

\* some code queues a call of initialize
ScheduleInitialize ==
    /\ generated[Me] + (PairsPerRun * (Outstanding + 1)) <= MaxKeys
    /\ ScheduleCall("initialize")

\* the failures injected in SpecLive: one to fail an attempt, one more to
\* fail an attempt that started meanwhile
LiveFaults == 2

\* what attempt c awaits completes, well or not, as in Complete, with up to
\* LiveFaults failures
CompleteLive(c, ok) ==
    /\ Returned
    /\ InFlight(att[c])
    /\ (ok /\ att[c].pc \in {"pgen", "kgen"}) =>
            generated[Me] + GeneratedElsewhere(Me) < MaxKeys
    /\ ~ok => faults < LiveFaults
    /\ \A i \in Jobs("cont") : mq[i].c # c
    /\ mq' = Append(mq, ContJob(c, ok))
    /\ faults' = IF ok THEN faults ELSE faults + 1
    /\ last' = NoCall
    /\ UNCHANGED <<enc, kx, ks, directory, now, generated, att, call, wire, sent>>

NextL ==
    \/ ScheduleInitialize
    \/ \E c \in Callers, ok \in BOOLEAN : CompleteLive(c, ok)
    \/ RunCall
    \/ RunCont
    \/ RunReact

\* what the awaits wait for returns, and queued jobs are run
FairL ==
    /\ \A c \in Callers : WF_vars(\E ok \in BOOLEAN : CompleteLive(c, ok))
    /\ WF_vars(RunCall)
    /\ WF_vars(RunCont)
    /\ WF_vars(RunReact)

SpecLive == Init /\ [][NextL]_vars /\ FairL

(***************************************************************************)
(* Specification SpecClock: two users whose calls take time.  The version  *)
(* of a generated pair is the reading of Date.now(), the wall clock of the *)
(* machine, which its owner or a time synchronisation can set back.        *)
(***************************************************************************)
\* the wall clock is set back
ClockSetBack ==
    /\ Returned
    /\ now > 1
    /\ \E t \in 1..(now - 1) : now' = t
    /\ last' = NoCall
    /\ UNCHANGED <<enc, kx, ks, directory, faults, generated, att, call, mq, wire, sent>>

NextT ==
    \/ \E u \in Users : Initialize(u)
    \/ \E u \in Users : RefreshKeysLater(u)
    \/ Tick
    \/ ClockSetBack

SpecClock == Init /\ [][NextT]_vars

(***************************************************************************)
(* Specification SpecSession: the session of Me, Peer being registered,    *)
(* with encryptMessage split at its first suspension point (the await of   *)
(* _getRecipientPublicKey), so that a rotation or a logout can run while   *)
(* a call of encryptMessage is in flight.                                  *)
(***************************************************************************)
\* EncryptionService.clearEncryption: the state it leaves; io is the outcome
\* of keyStorageService.clearPrivateKey, whose failure the catch block logs
clearEncryption(e, k, s, io) ==
    IF e.currentUserId # NoUser /\ ~io THEN [enc |-> e, kx |-> k, ks |-> s]
    ELSE [enc |-> [e EXCEPT !.isInitialized = FALSE, !.currentUserId = NoUser,
                            !.currentToken = NoUser, !.lastError = NoError],
          kx |-> clearCache(k),
          ks |-> IF e.currentUserId # NoUser THEN [s EXCEPT !.privateKey = Null] ELSE s]

\* process u calls clearEncryption() (logout)
ClearEncryption(u) ==
    /\ Returned
    /\ \E io \in {b \in BOOLEAN : ~b => faults < MaxFaults /\ enc[u].currentUserId # NoUser} :
        LET r == clearEncryption(enc[u], kx[u], ks[u], io)
        IN  /\ enc' = [enc EXCEPT ![u] = r.enc]
            /\ kx' = [kx EXCEPT ![u] = r.kx]
            /\ ks' = [ks EXCEPT ![u] = r.ks]
            /\ faults' = IF io THEN faults ELSE faults + 1
    /\ last' = NoCall
    /\ UNCHANGED <<directory, now, generated, att, call, mq, wire, sent>>

\* the result the caller of encryptMessage is handed: as in EncryptMessage,
\* with the private key process u held when the call began (key) and the
\* one that signed (signer)
EncryptResult(u, message, recipientUserId, fault, key, r) ==
    [op |-> "encrypt", user |-> u, peer |-> recipientUserId, text |-> message,
     altered |-> "none", fault |-> fault, status |-> StatusOf(u), ok |-> r.ok,
     result |-> <<>>, error |-> IF r.ok THEN NoError ELSE r.enc.lastError,
     verified |-> "skipped", key |-> key, signer |-> r.env.signature.signer]

\* process u calls encryptMessage(message, recipientUserId): the call runs
\* to its first await, or fails its checks
EncryptBegin(u, message, recipientUserId) ==
    /\ Returned
    /\ Busy = {}
    /\ IF encryptChecks(enc[u], kx[u], message, recipientUserId)
       THEN /\ call' = [call EXCEPT ![FreeSlot] =
                            [pc |-> "lookup", op |-> "encryptMessage", own |-> FALSE,
                             user |-> u, peer |-> recipientUserId, text |-> message,
                             status |-> StatusOf(u), key |-> kx[u].myPrivateKey]]
            /\ last' = NoCall
            /\ UNCHANGED enc
       ELSE /\ enc' = [enc EXCEPT ![u].lastError = ENCRYPTION_FAILED]
            /\ last' = [EncryptResult(u, message, recipientUserId, "none",
                                      kx[u].myPrivateKey,
                                      [ok |-> FALSE, env |-> NoEnvelope,
                                       enc |-> enc'[u]])
                            EXCEPT !.status = StatusOf(u)]
            /\ UNCHANGED call
    /\ UNCHANGED <<kx, ks, directory, now, faults, generated, att, mq, wire, sent>>

\* the call c of encryptMessage resumes and runs to its end
EncryptEnd(c) ==
    /\ Returned
    /\ call[c].pc = "lookup"
    /\ \E aesKey \in DrawnAesKeys, iv \in DrawnIVs, fault \in FaultsNow :
        LET u == call[c].user
            r == encryptFromLookup(enc[u], kx[u], ks[u], directory, call[c].text,
                                   call[c].peer, now, aesKey, iv,
                                   FailsOf(fault), fault # "io")
        IN  /\ faults' = IF fault = "none" THEN faults ELSE faults + 1
            /\ enc' = [enc EXCEPT ![u] = r.enc]
            /\ kx' = [kx EXCEPT ![u] = r.kx]
            /\ ks' = [ks EXCEPT ![u] = r.ks]
            /\ wire' = IF r.ok THEN r.env ELSE wire
            /\ sent' = IF r.ok
                       THEN [message |-> call[c].text, from |-> u, to |-> call[c].peer,
                             rotated |-> FALSE]
                       ELSE sent
            /\ last' = [EncryptResult(u, call[c].text, call[c].peer, fault,
                                      call[c].key, r)
                            EXCEPT !.status = call[c].status]
    /\ call' = [call EXCEPT ![c] = IdleCall]
    /\ UNCHANGED <<directory, now, generated, att, mq>>

NextR ==
    \/ \E m \in Strings : EncryptBegin(Me, m, Peer)
    \/ \E c \in Callers : EncryptEnd(c)
    \/ Initialize(Me)
    \/ RefreshKeys(Me)
    \/ ClearEncryption(Me)
    \/ Return

SpecSession == InitC /\ [][NextR]_vars

(***************************************************************************)
(* Specification SpecFlow: the primitives of CryptoService composed as in  *)
(* TestRunner.testEndToEndFlow, for every two key pairs, AES key, iv and   *)
(* message of the model, and the key export / import functions.            *)
(***************************************************************************)
\* the services of the session are not used by the functions checked here:
\* they stay as constructed
Untouched ==
    /\ enc = [u \in Users |-> NewEncryptionService]
    /\ kx = [u \in Users |-> NewKeyExchangeService]
    /\ ks = [u \in Users |-> NewKeyStore]
    /\ directory = [u \in Users |-> NoRecord]
    /\ now = 1
    /\ faults = 0
    /\ generated = [u \in Users |-> 0]
    /\ att = [c \in Callers |-> NoAttempt]
    /\ call = [c \in Callers |-> IdleCall]
    /\ mq = <<>>
    /\ wire = NoEnvelope
    /\ sent = NothingSent

\* the values drawn: the pairs of user 1 and user 2, the AES key and the iv
\* that the random generators return, and the message
InitF ==
    /\ Untouched
    /\ \E k1 \in 1..MaxKeys, k2 \in 1..MaxKeys, aesKey \in AesKeys, iv \in IVs,
          message \in Strings :
            /\ k1 # k2
            /\ last = [op |-> "drawn", user1KeyPair |-> k1, user2KeyPair |-> k2,
                       aesKey |-> aesKey, iv |-> iv, message |-> message]

\* TestRunner.testEndToEndFlow on the values drawn
EndToEndFlow ==
    /\ last.op = "drawn"
    /\ LET exportedAESKey == exportAESKey(last.aesKey)
           encryptedAESKey == encryptWithRSA(exportedAESKey, last.user2KeyPair)
           decryptedAESKey == decryptWithRSA(encryptedAESKey.v, last.user2KeyPair)
           user2AESKey == importAESKey(decryptedAESKey.v)
           encrypted == encryptWithAES(last.message, last.aesKey, last.iv)
           decryptedMessage == decryptWithAES(encrypted.encryptedData, encrypted.iv,
                                              user2AESKey)
       IN  last' = [op |-> "flow", user1KeyPair |-> last.user1KeyPair,
                    user2KeyPair |-> last.user2KeyPair, aesKey |-> last.aesKey,
                    iv |-> last.iv, message |-> last.message,
                    wrapped |-> encryptedAESKey.ok, unwrapped |-> decryptedAESKey,
                    user2AESKey |-> user2AESKey, ivReturned |-> encrypted.iv,
                    decryptedMessage |-> decryptedMessage]
    /\ UNCHANGED <<enc, kx, ks, directory, now, faults, generated, att, call, mq, wire, sent>>

\* TestRunner.testRSAKeyExportImport and testAESKeyExportImport on the
\* values drawn
ExportImport ==
    /\ last.op = "drawn"
    /\ last' = [op |-> "exportImport", user1KeyPair |-> last.user1KeyPair,
                aesKey |-> last.aesKey,
                exportedPublicKey |-> exportPublicKey(last.user1KeyPair),
                importedPublicKey |-> importPublicKey(exportPublicKey(last.user1KeyPair)),
                exportedPrivateKey |-> exportPrivateKey(last.user1KeyPair),
                importedPrivateKey |-> importPrivateKey(exportPrivateKey(last.user1KeyPair)),
                exportedKey |-> exportAESKey(last.aesKey),
                importedKey |-> importAESKey(exportAESKey(last.aesKey))]
    /\ UNCHANGED <<enc, kx, ks, directory, now, faults, generated, att, call, mq, wire, sent>>

NextF == EndToEndFlow \/ ExportImport

SpecFlow == InitF /\ [][NextF]_vars

(***************************************************************************)
(* utils/errorHandler.js: shouldRetry and retryWithBackoff.  An error is   *)
(* a record of the four properties the functions read; its message is      *)
(* given by the words, of those tested with includes(), that it contains;  *)
(* status 0 and code "" stand for properties the error does not have.      *)
(***************************************************************************)
ErrorCodes == {"", "AUTH_ERROR", "auth/invalid-token", "NETWORK_ERROR", "E_OTHER"}
\* the codes for which code.startsWith('auth/') holds
AuthPrefixed == {"auth/invalid-token"}
Words == {"network", "fetch", "authentication", "unauthorized"}
ErrorNames == {"NetworkError", "Error"}
Statuses == {0, 400, 499, 500, 599, 600}
Errors == [code : ErrorCodes, message : SUBSET Words, name : ErrorNames, status : Statuses]
NoErrorThrown == [code |-> "", message |-> {}, name |-> "", status |-> 0]

isNetworkError(error) ==
    \/ error.code = "NETWORK_ERROR"
    \/ "network" \in error.message
    \/ "fetch" \in error.message
    \/ error.name = "NetworkError"

isAuthError(error) ==
    \/ error.code = "AUTH_ERROR"
    \/ error.code \in AuthPrefixed
    \/ "authentication" \in error.message
    \/ "unauthorized" \in error.message

\* shouldRetry that retries whatever the error is
shouldRetry_Always(error, retryCount, maxRetriesArg) == retryCount < maxRetriesArg

\* maxRetriesArg is the parameter maxRetries
shouldRetry(error, retryCount, maxRetriesArg) ==
    IF retryCount >= maxRetriesArg THEN FALSE
    ELSE IF isNetworkError(error) THEN TRUE
    ELSE IF error.status >= 500 /\ error.status < 600 THEN TRUE
    ELSE IF isAuthError(error) \/ (error.status >= 400 /\ error.status < 500) THEN FALSE
    ELSE FALSE

\* retryWithBackoff: the delay after the failure of attempt i, with the
\* value jitter of Math.random() * 1000
backoffDelay(baseDelay, i, jitter) == (baseDelay * (2 ^ i)) + jitter

\* the catch block without the call of shouldRetry
retryCatch_IgnoresShouldRetry(r, error, jitter) ==
    IF r.i = r.maxRetries
    THEN [r EXCEPT !.pc = "thrown", !.lastError = error, !.thrown = error]
    ELSE [r EXCEPT !.pc = "wait", !.lastError = error,
                   !.waits = Append(@, backoffDelay(r.baseDelay, r.i, jitter))]

\* retryWithBackoff: the catch block, in the call with locals r, fn having
\* thrown error
retryCatch(r, error, jitter) ==
    IF r.i = r.maxRetries \/ ~shouldRetry(error, r.i, r.maxRetries)
    THEN [r EXCEPT !.pc = "thrown", !.lastError = error, !.thrown = error]
    ELSE [r EXCEPT !.pc = "wait", !.lastError = error,
                   !.waits = Append(@, backoffDelay(r.baseDelay, r.i, jitter))]

(***************************************************************************)
(* Specification SpecRetry: the retry code of the client.  shouldRetry on  *)
(* every error, retryWithBackoff attempt by attempt with an fn that        *)
(* returns or throws as it likes, the fetch loop of getUserPublicKey on    *)
(* every pattern of failures, and the first initialize of Me step by step  *)
(* with key generation failing as often as it likes.  What retryWithBackoff*)
(* awaits returns, and its timers fire.                                    *)
(***************************************************************************)
\* the errors fn throws: network, server, authentication, client and
\* unclassified errors, and an authentication error that mentions fetch
ThrownErrors ==
    {e \in Errors :
        /\ e.name = "Error"
        /\ e.message \in {{}, {"fetch"}, {"unauthorized"}, {"fetch", "unauthorized"}}
        /\ e.code \in {"", "AUTH_ERROR"}
        /\ e.status \in {0, 400, 500}}
\* values fn returns
FnValues == {"a", "b"}
\* values of Math.random() * 1000, rounded down
Jitters == {0, 999}
\* maxRetries arguments of the calls
MaxRetriesArgs == 0..maxRetries
\* retryCount arguments of shouldRetry
RetryCounts == 0..(maxRetries + 1)

InitY ==
    /\ Untouched
    /\ \/ last = NoCall
       \/ \E error \in Errors, retryCount \in RetryCounts, mr \in MaxRetriesArgs :
            last = [op |-> "error", error |-> error, retryCount |-> retryCount,
                    maxRetries |-> mr]
       \/ \E responds \in [1..maxRetries -> BOOLEAN] :
            last = [op |-> "responds", responds |-> responds]
       \/ \E mr \in MaxRetriesArgs, baseDelay \in {500, 1000} :
            last = [op |-> "retryWithBackoff", pc |-> "call", i |-> 0,
                    maxRetries |-> mr, baseDelay |-> baseDelay, calls |-> 0,
                    lastError |-> NoErrorThrown, thrown |-> NoErrorThrown,
                    result |-> "", waits |-> <<>>]

\* shouldRetry(error, retryCount, maxRetries) on the arguments drawn
ShouldRetry ==
    /\ last.op = "error"
    /\ last' = [op |-> "shouldRetry", error |-> last.error,
                retryCount |-> last.retryCount, maxRetries |-> last.maxRetries,
                result |-> shouldRetry(last.error, last.retryCount, last.maxRetries)]
    /\ UNCHANGED <<enc, kx, ks, directory, now, faults, generated, att, call, mq, wire, sent>>

\* retryWithBackoff: fn is called and returns value
FnReturns(value) ==
    /\ last.op = "retryWithBackoff"
    /\ last.pc = "call"
    /\ last' = [last EXCEPT !.pc = "returned", !.calls = @ + 1, !.result = value]
    /\ UNCHANGED <<enc, kx, ks, directory, now, faults, generated, att, call, mq, wire, sent>>

\* retryWithBackoff: fn is called and throws error; the catch block
FnThrows(error, jitter) ==
    /\ last.op = "retryWithBackoff"
    /\ last.pc = "call"
    /\ last' = retryCatch([last EXCEPT !.calls = @ + 1], error, jitter)
    /\ UNCHANGED <<enc, kx, ks, directory, now, faults, generated, att, call, mq, wire, sent>>

\* retryWithBackoff: the timer fires, i++ and the loop test; after the loop
\* lastError is thrown
TimerFires ==
    /\ last.op = "retryWithBackoff"
    /\ last.pc = "wait"
    /\ last' = IF last.i + 1 <= last.maxRetries
               THEN [last EXCEPT !.pc = "call", !.i = @ + 1]
               ELSE [last EXCEPT !.pc = "thrown", !.i = @ + 1, !.thrown = last.lastError]
    /\ UNCHANGED <<enc, kx, ks, directory, now, faults, generated, att, call, mq, wire, sent>>

\* the fetch loop of getUserPublicKey on the pattern of failures drawn
FetchWithRetry ==
    /\ last.op = "responds"
    /\ LET fetched == fetchWithRetry(last.responds, 0)
       IN  last' = [op |-> "fetchWithRetry", responds |-> last.responds,
                    ok |-> fetched.ok, fetches |-> fetched.fetches,
                    waits |-> fetched.waits]
    /\ UNCHANGED <<enc, kx, ks, directory, now, faults, generated, att, call, mq, wire, sent>>

\* initialize(Me, token), its first call: _performInitialization up to its
\* first await
InitializeBegins ==
    /\ last = NoCall
    /\ att[1].pc = "none"
    /\ LET W == PerformBegin(WorldOf(Me, NoAttempt), Me, TokenOf(Me))
       IN  Install(Me, W) /\ att' = [att EXCEPT ![1] = W.a]
    /\ UNCHANGED <<now, call, mq, wire, sent, last>>

\* what _performInitialization awaits returns: key store and directory
\* answer, key generation returns a valid pair (ok) or does not
InitializeStep(ok) ==
    /\ InFlight(att[1])
    /\ ok \/ att[1].pc = "kgen"
    /\ ok /\ att[1].pc \in {"pgen", "kgen"} => generated[Me] < MaxKeys
    /\ \E W \in {PerformStepOf(WorldOf(Me, att[1]), Me, ok, now)} :
            Install(Me, W) /\ att' = [att EXCEPT ![1] = W.a]
    /\ UNCHANGED <<now, call, mq, wire, sent, last>>

NextY ==
    \/ ShouldRetry
    \/ \E value \in FnValues : FnReturns(value)
    \/ \E error \in ThrownErrors, jitter \in Jitters : FnThrows(error, jitter)
    \/ TimerFires
    \/ FetchWithRetry
    \/ InitializeBegins
    \/ \E ok \in BOOLEAN : InitializeStep(ok)

FairY ==
    /\ WF_vars((\E value \in FnValues : FnReturns(value))
                    \/ \E error \in ThrownErrors, jitter \in Jitters :
                            FnThrows(error, jitter))
    /\ WF_vars(TimerFires)

SpecRetry == InitY /\ [][NextY]_vars /\ FairY

(***************************************************************************)
(* hooks/useChat.js: sendMessage and handleMessage.  The hook's state is   *)
(* the messages list; what it hands to websocketService.sendMessage is     *)
(* kept per call.  encryptionManager and websocketService are consumed:    *)
(* encryptMessage returns an encrypted payload or throws, decryptMessage   *)
(* returns a text or throws, websocketService.sendMessage takes what it is *)
(* given and returns.                                                      *)
(***************************************************************************)
\* the longest messageContent handed to sendMessage
MaxContent == 3
\* the contents typed; character 0 is the white-space character
TypedContents == UNION {[1..n -> Chars] : n \in 0..MaxContent}
isSpace(c) == c = 0

RECURSIVE trimStart(_)
trimStart(s) == IF s # <<>> /\ isSpace(Head(s)) THEN trimStart(Tail(s)) ELSE s

RECURSIVE trimEnd(_)
trimEnd(s) ==
    IF s # <<>> /\ isSpace(s[Len(s)]) THEN trimEnd(SubSeq(s, 1, Len(s) - 1)) ELSE s

\* String.prototype.trim
trim(s) == trimEnd(trimStart(s))

\* room ids; "" is the falsy one
NoRoom == ""
RoomIds == {NoRoom, "room"}

\* the third argument of websocketService.sendMessage when it is left out
NoOptions == [encrypted_aes_key |-> GarbageWrap, iv |-> [i \in 1..BlockSize |-> 0],
              is_encrypted |-> FALSE]

\* one call of websocketService.sendMessage(roomId, content, options)
WebsocketSend(roomId, content, withOptions, options) ==
    [roomId |-> roomId, content |-> content, withOptions |-> withOptions,
     options |-> options]

\* a content handed to the websocket: the text itself, or the text sealed
\* under an AES key and an iv
PlainText(m) == [sealed |-> FALSE, key |-> 0, iv |-> [i \in 1..BlockSize |-> 0], text |-> m]
SealedText(m, aesKey, iv) == [sealed |-> TRUE, key |-> aesKey, iv |-> iv, text |-> m]

\* what encryptionManager.encryptMessage(message, roomId) resolves with
messageDataOf(message, aesKey, iv, recipientKey) ==
    [content |-> SealedText(message, aesKey, iv),
     encrypted_aes_key |-> encryptWithRSA(exportAESKey(aesKey), recipientKey).v,
     iv |-> iv,
     is_encrypted |-> TRUE]

\* no sendMessage call yet
NoSend == [roomId |-> NoRoom, messageContent |-> <<>>, pc |-> "none",
           encrypted |-> FALSE, messageData |-> NoOptions @@ [content |-> PlainText(<<>>)],
           issued |-> <<>>]

\* sendMessage, its try block after encryptMessage has resolved
sendEncrypted(s, messageData) ==
    [s EXCEPT !.pc = "returned", !.encrypted = TRUE, !.messageData = messageData,
              !.issued = Append(@, WebsocketSend(s.roomId, messageData.content, TRUE,
                    [encrypted_aes_key |-> messageData.encrypted_aes_key,
                     iv |-> messageData.iv,
                     is_encrypted |-> messageData.is_encrypted]))]

\* sendMessage, its catch block
sendPlain_Untrimmed(s) ==
    [s EXCEPT !.pc = "returned",
              !.issued = Append(@, WebsocketSend(s.roomId,
                                    PlainText(s.messageContent), FALSE, NoOptions))]

sendPlain(s) ==
    [s EXCEPT !.pc = "returned",
              !.issued = Append(@, WebsocketSend(s.roomId,
                                    PlainText(trim(s.messageContent)), FALSE, NoOptions))]

\* sendMessage up to its first await
sendMessageBegin(roomId, messageContent) ==
    IF trim(messageContent) = <<>> \/ roomId = NoRoom
    THEN [NoSend EXCEPT !.roomId = roomId, !.messageContent = messageContent,
                        !.pc = "returned"]
    ELSE [NoSend EXCEPT !.roomId = roomId, !.messageContent = messageContent,
                        !.pc = "encrypting"]

\* message ids of the server; "" is a missing id
NoId == ""
MessageIds == {"m1", "m2"}
\* the ids `${Date.now()}_${Math.random()...}` yields, in the order drawn
GeneratedIds == <<"g1">>
\* the text '[Error decrypting message]', which no content of the model is
ErrorDecrypting == <<2>>
\* contents and decrypted texts of incoming messages
Contents == {<<>>, <<1>>}

\* what the socket delivers to handleMessage: m1 and the messages without
\* an id come from the peer, m2 is the user's own message coming back
MessageDatas ==
    {md \in [id : MessageIds \cup {NoId}, content : Contents, is_encrypted : BOOLEAN,
             sender_id : Users] :
        md.sender_id = IF md.id = "m2" THEN Me ELSE Peer}

Handlers == 1..2
\* a handleMessage call that is not between its await and its continuation
NoHandler == [pc |-> "none", messageData |-> [id |-> NoId, content |-> <<>>,
                 is_encrypted |-> FALSE, sender_id |-> NoUser]]

\* the state of the hook after useState
NewChat ==
    [op |-> "useChat", userId |-> Me, messages |-> <<>>, generatedIds |-> 0,
     handling |-> [h \in Handlers |-> NoHandler], sending |-> NoSend]

\* handleMessage: newMessage, from what decryptMessage did
newMessageOf(messageData, threw, decrypted, id, userId) ==
    [id |-> id,
     text |-> IF ~threw THEN decrypted
              ELSE IF messageData.content # <<>> THEN messageData.content
              ELSE ErrorDecrypting,
     sender |-> IF messageData.sender_id = userId THEN "me" ELSE "other",
     isEncrypted |-> IF threw THEN FALSE ELSE messageData.is_encrypted]

\* the updater handed to setMessages, without its test for duplicates
addMessage_NoTest(prev, newMessage) == Append(prev, newMessage)

\* the updater handed to setMessages
addMessage(prev, newMessage) ==
    IF \E i \in 1..Len(prev) : prev[i].id = newMessage.id THEN prev
    ELSE Append(prev, newMessage)

(***************************************************************************)
(* Specification SpecChat: sendMessage of the hook of user Me, called on   *)
(* every room id and content, with encryptMessage resolving or rejecting.  *)
(* Specification SpecInbox: handleMessage of the same hook.  Messages      *)
(* arrive as they like, and up to two handleMessage calls are between      *)
(* their await and their continuation at a time.  The two share no state:  *)
(* sendMessage does not touch the messages list.                           *)
(***************************************************************************)
InitH ==
    /\ Untouched
    /\ last = NewChat

\* sendMessage(roomId, messageContent) up to its first await
SendMessageBegins(roomId, messageContent) ==
    /\ last.op = "useChat"
    /\ last.sending.pc # "encrypting"
    /\ last' = [last EXCEPT !.sending = sendMessageBegin(roomId, messageContent)]
    /\ UNCHANGED <<enc, kx, ks, directory, now, faults, generated, att, call, mq, wire, sent>>

\* encryptMessage resolves: the rest of the try block
EncryptResolves(aesKey, iv, recipientKey) ==
    /\ last.op = "useChat"
    /\ last.sending.pc = "encrypting"
    /\ last' = [last EXCEPT !.sending =
                    sendEncrypted(@, messageDataOf(trim(@.messageContent), aesKey, iv,
                                                   recipientKey))]
    /\ UNCHANGED <<enc, kx, ks, directory, now, faults, generated, att, call, mq, wire, sent>>

\* encryptMessage rejects: the catch block
EncryptRejects ==
    /\ last.op = "useChat"
    /\ last.sending.pc = "encrypting"
    /\ last' = [last EXCEPT !.sending = sendPlain(@)]
    /\ UNCHANGED <<enc, kx, ks, directory, now, faults, generated, att, call, mq, wire, sent>>

\* handleMessage(messageData) up to its await
HandleMessageBegins(h, messageData) ==
    /\ last.op = "useChat"
    /\ last.handling[h].pc = "none"
    /\ last' = [last EXCEPT !.handling[h] =
                    [pc |-> "decrypting", messageData |-> messageData]]
    /\ UNCHANGED <<enc, kx, ks, directory, now, faults, generated, att, call, mq, wire, sent>>

\* decryptMessage settles (it throws, or resolves with decrypted): the rest
\* of handleMessage, and the updater of setMessages applied
HandleMessageResumes(h, threw, decrypted) ==
    /\ last.op = "useChat"
    /\ last.handling[h].pc = "decrypting"
    /\ LET messageData == last.handling[h].messageData
           fresh == messageData.id = NoId
           id == IF fresh THEN GeneratedIds[last.generatedIds + 1] ELSE messageData.id
       IN  /\ fresh => last.generatedIds < Len(GeneratedIds)
           /\ last' = [last EXCEPT
                        !.handling[h] = NoHandler,
                        !.generatedIds = IF fresh THEN @ + 1 ELSE @,
                        !.messages = addMessage(@, newMessageOf(messageData, threw,
                                                   decrypted, id, last.userId))]
    /\ UNCHANGED <<enc, kx, ks, directory, now, faults, generated, att, call, mq, wire, sent>>

NextH ==
    \/ \E roomId \in RoomIds, messageContent \in TypedContents :
            SendMessageBegins(roomId, messageContent)
    \/ \E aesKey \in AesKeys, iv \in IVs : EncryptResolves(aesKey, iv, 1)
    \/ EncryptRejects

SpecChat == InitH /\ [][NextH]_vars

NextB ==
    \/ \E h \in Handlers, messageData \in MessageDatas : HandleMessageBegins(h, messageData)
    \/ \E h \in Handlers, threw \in BOOLEAN, decrypted \in Contents :
            HandleMessageResumes(h, threw, decrypted)

SpecInbox == InitH /\ [][NextB]_vars

(***************************************************************************)
(* Properties                                                              *)
(***************************************************************************)
\* the runs of _performInitialization that have begun and not ended
InFlightAttempts == {c \in Callers : InFlight(att[c])}

\* the last call was decryptMessage on the envelope in transit, as it was
\* produced by encryptMessage
DecryptedUnaltered ==
    last.op = "decrypt" /\ wire.is_encrypted /\ last.altered = "none"

\* ... by the user it was encrypted for, while that user was available and
\* held the private key the envelope's AES key was wrapped for
DecryptedByRecipient ==
    /\ DecryptedUnaltered
    /\ last.user = sent.to
    /\ last.status = AVAILABLE
    /\ wire.encrypted_aes_key.to = kx[sent.to].myPrivateKey

\* C1: in the process of one user, whatever the interleaving of the calls
\* of initialize, at most one run of _performInitialization is in flight at
\* any time.
C1_SingleAttemptInFlight == Cardinality(InFlightAttempts) <= 1

\* the state changes the specification's state machine allows
SpecTransitions ==
    {<<UNAVAILABLE, INITIALIZING>>, <<INITIALIZING, AVAILABLE>>,
     <<INITIALIZING, ERROR>>, <<AVAILABLE, ERROR>>, <<ERROR, INITIALIZING>>}

\* C2: the status getEncryptionStatus reports changes only along the
\* transitions of the specification's state machine: Uninitialized to
\* Initializing, Initializing to Ready or to Error, Ready to Error, Error to
\* Initializing.
C2_OnlySpecTransitions ==
    [][StatusOf(Me)' # StatusOf(Me) => <<StatusOf(Me), StatusOf(Me)'>> \in SpecTransitions]_vars

\* C3: encryptMessage and decryptMessage of an encrypted envelope succeed
\* only when the reported status is AVAILABLE at the time of the call; in
\* every other status encryptMessage fails with ENCRYPTION_FAILED and
\* decryptMessage with DECRYPTION_FAILED.
C3_OnlyWhenReady ==
    /\ (last.op = "encrypt" /\ last.status # AVAILABLE)
            => (~last.ok /\ last.error = ENCRYPTION_FAILED)
    /\ (last.op = "decrypt" /\ wire.is_encrypted /\ last.status # AVAILABLE)
            => (~last.ok /\ last.error = DECRYPTION_FAILED)

\* C4: round trip for every plaintext, the empty string included: an
\* available sender gets an envelope for every plaintext and every
\* registered recipient when no I/O fails, and the recipient, holding the
\* key it was wrapped for, decrypts the envelope to that plaintext.
C4_RoundTripAnyString ==
    /\ (last.op = "encrypt" /\ last.status = AVAILABLE /\ last.fault = "none"
            /\ directory[last.peer] # NoRecord)
            => last.ok
    /\ (DecryptedByRecipient /\ last.peer = sent.from)
            => (last.ok /\ last.result = sent.message)

\* C5: an envelope produced by encryptMessage and altered in its content,
\* its encrypted_aes_key or its iv makes the recipient's decryptMessage fail
\* with DECRYPTION_FAILED (stated for the calls in which no I/O fails).
C5_TamperDetected ==
    (last.op = "decrypt" /\ wire.is_encrypted /\ last.user = sent.to
        /\ last.fault = "none"
        /\ last.altered \in {"content", "encrypted_aes_key", "iv"})
        => (~last.ok /\ last.error = DECRYPTION_FAILED)

\* C6: when decryptMessage unwraps and decrypts but the signature does not
\* verify, it returns the plain text (the one sent, when only the signature
\* was altered) and the caller finds SIGNATURE_VERIFICATION_FAILED as the
\* service's lastError once the call has returned (stated for the calls in
\* which no I/O fails).
C6_FailureMarkerObservable ==
    /\ (last.op = "decrypt" /\ wire.is_encrypted /\ last.altered = "signature"
            /\ last.user = sent.to /\ last.ok)
            => last.result = sent.message
    /\ (last.op = "decrypt" /\ last.ok /\ last.fault = "none"
            /\ last.verified = "invalid")
            => enc[last.user].lastError = SIGNATURE_VERIFICATION_FAILED

\* C7: decryptMessage of an envelope produced by encryptMessage(p, R),
\* called by a user other than R, fails with DECRYPTION_FAILED.
C7_OnlyRecipientDecrypts ==
    (DecryptedUnaltered /\ last.user # sent.to)
        => (~last.ok /\ last.error = DECRYPTION_FAILED)

\* C7, its case: the sender, available, was refused its own envelope
C7_SenderRefused ==
    /\ DecryptedUnaltered
    /\ last.user = sent.from
    /\ last.status = AVAILABLE
    /\ ~last.ok

\* the key process R uses for S after a lookup that did not fail is the one
\* the directory holds for S
HoldsPublishedKey(R, S) == ks[R].publicKeys[S] = directory[S].public_key

\* what C8 concludes: the plain text, the signature found valid, no failure
\* recorded
VerifiedPlainText ==
    /\ last.ok
    /\ last.result = sent.message
    /\ last.verified = "valid"
    /\ enc[last.user].lastError = NoError

C9_VersionIsolation ==
    (DecryptedUnaltered /\ last.user = sent.to /\ sent.rotated)
        => (~last.ok /\ last.error = DECRYPTION_FAILED)

\* C9, its case: R, available after its rotation, was refused the envelope
C9_OldEnvelopeRefused ==
    /\ DecryptedUnaltered
    /\ last.user = sent.to
    /\ sent.rotated
    /\ last.status = AVAILABLE
    /\ ~last.ok

\* C10: decryptMessage of an envelope with is_encrypted = false returns its
\* content as it is, in every status, and leaves the status as it was; and
\* decryptMessage succeeds on an envelope with is_encrypted = true only by
\* unwrapping the AES key with the caller's private key and decrypting the
\* content with it.
C10_PlainPassthrough ==
    /\ (last.op = "decrypt" /\ ~wire.is_encrypted /\ wire # NoEnvelope)
            => /\ last.ok
               /\ last.result = wire.content.text
               /\ StatusOf(last.user) = last.status
    /\ (DecryptedUnaltered /\ last.ok)
            => LET aesKey == decryptWithRSA(wire.encrypted_aes_key,
                                            kx[last.user].myPrivateKey)
               IN  /\ last.status = AVAILABLE
                   /\ aesKey.ok
                   /\ decryptWithAES(wire.content, wire.iv, aesKey.v) = Ok(last.result)

\* C10, its case: a plain envelope was handed back by a service in status
\* ERROR
C10_PassedThroughInError ==
    /\ last.op = "decrypt"
    /\ ~wire.is_encrypted
    /\ wire.content.text # <<>>
    /\ last.status = ERROR
    /\ last.ok
    /\ last.result = wire.content.text

\* the entry process u held for userId when the last getUserPublicKey began
CachedBefore == last.before.userKeys[last.peer]

C12_ValidUpToTTL ==
    last.op = "getUserPublicKey"
        => IF CachedBefore # NoEntry /\ now - CachedBefore.timestamp <= cacheExpiry
           THEN last.fetches = 0 /\ last.ok /\ last.result = CachedBefore.publicKey
           ELSE last.fetches >= 1

\* the last call was getUserPublicKey on a cache miss or an expired entry
LookupMissed ==
    /\ last.op = "getUserPublicKey"
    /\ ~(CachedBefore # NoEntry /\ IsCacheValid(CachedBefore.timestamp, now))

\* what C13 says of the attempts of a call that missed: at most 3, none
\* after the first one that gets a response; and a failed call leaves the
\* cache and the version map as they were
AttemptsBounded ==
    /\ last.fetches <= 3
    /\ \A i \in 1..maxRetries : last.responds[i] => last.fetches <= i
    /\ ~last.ok => kx[last.user] = last.before

AllAttemptsFailed == last.fetches = 3 /\ \A i \in 1..3 : ~last.responds[i]

\* the fetch that got a response brought no well-formed public key
AnswerUnusable ==
    /\ last.responds[last.fetches]
    /\ last.keyData.public_key = Null \/ ~IsValidPublicKey(last.keyData.public_key)

\* C13, as amended: a getUserPublicKey call on a cache miss or an expired
\* entry makes at most 3 fetches and none after the first that gets a
\* response; it fails only after 3 failed fetches or when the response
\* holds no well-formed public key; a failed call leaves the key cache and
\* the version map unchanged.
C13_RetryPolicy ==
    LookupMissed => /\ AttemptsBounded
                    /\ ~last.ok => (AllAttemptsFailed \/ AnswerUnusable)

\* C13, its case: the second fetch got a response whose key is no PEM, and
\* the call failed after two fetches
C13_FailedOnAnswer ==
    /\ LookupMissed
    /\ ~last.ok
    /\ last.fetches = 2
    /\ last.keyData.public_key = MalformedPem

\* C13 as stated: the call fails only after 3 consecutive failed fetches.
C13_FailsOnlyAfterThreeFailures ==
    LookupMissed => /\ AttemptsBounded
                    /\ ~last.ok => AllAttemptsFailed

\* the last call was initialize / refreshKeys of process u, and no I/O
\* failed in it
RanClean(op) == last.op = op /\ faults = last.before.faults
\* what the key store held for the user when the last call began
StoredBefore == last.before.ks.privateKey
\* key pairs generated in the last call
GeneratedIn == generated[last.user] - last.before.generated
\* the first key pair generated in the last call
FirstGenerated == KeyId(last.user, last.before.generated + 1)

\* C14: corrupted local key detection: when the key store holds malformed
\* private-key material, validateStoredKey returns false, and initialize (no
\* I/O failing) ends in Ready with a key pair generated in the call, stored
\* in the key store and published in the directory.
C14_CorruptedKeyRegenerated ==
    (RanClean("initialize") /\ StoredBefore \in {MalformedPem, GarbagePem})
        => /\ ~validateStoredKey(last.before.ks)
           /\ last.a.pc = "resolved"
           /\ StatusOf(last.user) = AVAILABLE
           /\ GeneratedIn >= 1
           /\ kx[last.user].myPrivateKey > KeyId(last.user, last.before.generated)
           /\ ks[last.user].privateKey = kx[last.user].myPrivateKey
           /\ directory[last.user].public_key = kx[last.user].myPrivateKey

\* C14, its case: the store held bytes that are no PEM, and the service is
\* available with a new key
C14_RegeneratedFromMalformed ==
    /\ RanClean("initialize")
    /\ StoredBefore = MalformedPem
    /\ StatusOf(last.user) = AVAILABLE
    /\ ks[last.user].privateKey > KeyId(last.user, last.before.generated)

\* C15: when the key store holds a valid private key and the directory
\* holds no public key for the user or one that does not match, initialize
\* (nothing else failing) ends in Ready with the stored key: no key pair is
\* generated and the key store record is not overwritten.
C15_StoredKeyKept ==
    (RanClean("initialize") /\ validateKeyPair(Null, StoredBefore)
        /\ ~validateKeyPairMatch(last.before.dir[last.user].public_key, StoredBefore))
        => /\ last.a.pc = "resolved"
           /\ StatusOf(last.user) = AVAILABLE
           /\ GeneratedIn = 0
           /\ ks[last.user].privateKey = StoredBefore
           /\ kx[last.user].myPrivateKey = StoredBefore

\* C16: an initialize that finds no usable stored key generates at most 3
\* key pairs, and when the validator accepts the first one (no I/O failing)
\* it goes on with that pair.
C16_GenerationBounded ==
    (last.op = "initialize" /\ ~validateKeyPair(Null, StoredBefore))
        => /\ GeneratedIn <= 3
           /\ (faults = last.before.faults /\ validateKeyPair(FirstGenerated, FirstGenerated))
                => /\ last.a.pc = "resolved"
                   /\ GeneratedIn = 1
                   /\ kx[last.user].myPrivateKey = FirstGenerated

\* C18: a key rotation clears the old private key only once the new pair is
\* generated: when a rotation fails, the key store still holds the private
\* key it held before.
C18_OldKeyKeptOnFailure ==
    (last.op = "refreshKeys" /\ StoredBefore # Null /\ last.a.pc = "rejected")
        => ks[last.user].privateKey = StoredBefore

\* run c of _performInitialization issues its upload request in this step
IssuesUpload(c) == att[c].pc # "kupload" /\ att'[c].pc = "kupload"

\* C17: the private key is written to the key store before the upload of
\* its public key is issued: when a run issues its upload request, the key
\* store holds the private half of the public key in the request.
C17_StoredBeforeUpload ==
    [][\A c \in Callers :
            IssuesUpload(c) => ks'[Me].privateKey = att'[c].body.public_key]_vars

\* process u rotates its keys in this step and the directory takes a new key
RotatesKeys(u) == RefreshKeys(u) /\ directory'[u] # directory[u]

\* C20: a successful key rotation of user u leaves the entries its cache
\* holds for every other user unchanged.
C20_OtherEntriesKept ==
    [][\A u \in Users :
            RotatesKeys(u) =>
                \A v \in Users \ {u} : kx'[u].userKeys[v] = kx[u].userKeys[v]]_vars

\* process u rotates its keys, over some time, and the directory takes a new key
RotatesKeysLater(u) == RefreshKeysLater(u) /\ directory'[u] # directory[u]

\* C19: a successful key rotation uploads a key version strictly greater
\* than the version published before it.
C19_VersionIncreases ==
    [][\A u \in Users :
            RotatesKeysLater(u) =>
                directory'[u].key_version > directory[u].key_version]_vars

\* the calls of refreshKeys in progress
Rotating == {c \in Callers : call[c].op = "refreshKeys" /\ call[c].pc # "idle"}

\* refreshKeys of call c, resumed after clearPrivateKey returned, clears the
\* key store and the cache and calls initialize in this step
ClearsKeys(c) == call[c].pc = "cleared" /\ call'[c].pc \in {"init", "react"}

\* C21: at most one key rotation is in progress at any time: a rotation
\* requested while another is in flight clears nothing before the other has
\* finished.
C21_RotationsSerialized ==
    [][\A c \in Callers : ClearsKeys(c) => Rotating \ {c} = {}]_vars

\* the last call was encryptMessage, begun while the service was available
EncryptedWhenReady == last.op = "encrypt" /\ last.status = AVAILABLE

\* C22: an encryptMessage call that began while the service was Ready
\* completes under the private key held when it began, whatever key
\* rotation runs while it is in flight (stated for the calls in which no
\* I/O fails).
C22_CompletesUnderOldKey ==
    (EncryptedWhenReady /\ last.text # <<>> /\ last.fault = "none")
        => (last.ok /\ last.signer = last.key)

\* C25: after clearEncryption has completed, the user's private key is held
\* neither in the key store nor in memory (getMyPrivateKey() returns null),
\* the public-key cache is empty and the service reports UNAVAILABLE
\* (Uninitialized); stated for the calls in which the key store does not
\* fail.
C25_LogoutWipesKeys ==
    [][(ClearEncryption(Me) /\ faults' = faults)
        => /\ ks'[Me].privateKey = Null
           /\ kx'[Me].myPrivateKey = Null
           /\ kx'[Me].userKeys = [v \in Users |-> NoEntry]
           /\ StatusOf(Me)' = UNAVAILABLE]_vars

\* this step is a call of encryptMessage or decryptMessage, run to its end
CallsCrypto == last.op = "none" /\ last'.op \in {"encrypt", "decrypt"}

\* the key pair and the version process u holds in memory
KeyPairOf(u) == <<kx[u].myPrivateKey, kx[u].myPublicKey, kx[u].myKeyVersion>>

\* C23: encryptMessage and decryptMessage, whether they succeed or fail,
\* leave the reported status, lastError, the key pair, the key version and
\* the private key in the key store as they were.
C23_CryptoCallsLeaveState ==
    [][\A u \in Users :
            (CallsCrypto /\ last'.user = u)
                => /\ StatusOf(u)' = StatusOf(u)
                   /\ enc'[u].lastError = enc[u].lastError
                   /\ KeyPairOf(u)' = KeyPairOf(u)
                   /\ ks'[u].privateKey = ks[u].privateKey]_vars

\* the last call was encryptMessage by an available sender, and every fetch
\* of the recipient's key failed
FetchFailedInEncrypt ==
    /\ EncryptedWhenReady
    /\ last.text # <<>>
    /\ last.fault = "net"
    /\ ~last.ok

\* C26: when the fetch of the recipient's public key fails inside
\* encryptMessage, the error handed to the caller is of the key-exchange
\* kind, not of the encryption kind.
C26_KeyExchangeErrorKept == FetchFailedInEncrypt => last.error = KEY_EXCHANGE_FAILED

\* the halves of the key pair process u holds in memory are both absent or
\* of one pair
PairConsistent(u) == kx[u].myPrivateKey = kx[u].myPublicKey

\* C24: at every point between two suspension points of initialize or of a
\* rotation, the public and the private key held in memory are both absent
\* or the halves of one key pair.
C24_KeyPairReplacedWhole == PairConsistent(Me)

\* the version process u had recorded for the user when the last call
\* began, and the version the directory reported; a version never recorded
\* or not reported counts as 1
CachedVersion == VersionOr1(last.before.keyVersions[last.peer])
ReportedVersion == VersionOr1(last.keyData.key_version)
\* the cached key fails the format validation
CachedKeyCorrupt == CachedBefore # NoEntry /\ ~IsValidPublicKey(CachedBefore.publicKey)

\* C27: checkKeyRotationNeeded returns true when the directory's version
\* exceeds the cached version or the cached key fails format validation,
\* false when the directory answers, its version does not exceed the cached
\* one and the cached key (if any) is well-formed, and true when the
\* directory cannot be reached.
C27_RotationCheck ==
    last.op = "checkKeyRotationNeeded"
        => /\ (last.reached /\ (ReportedVersion > CachedVersion \/ CachedKeyCorrupt))
                => last.result
           /\ (last.reached /\ ~(ReportedVersion > CachedVersion) /\ ~CachedKeyCorrupt)
                => ~last.result
           /\ ~last.reached => last.result

\* C27, its case: the user has rotated since its key was cached, and the
\* check says so
C27_NewerVersionSeen ==
    /\ last.op = "checkKeyRotationNeeded"
    /\ last.reached
    /\ CachedBefore # NoEntry
    /\ last.keyData = directory[last.peer]
    /\ ReportedVersion > CachedVersion
    /\ last.result

\* C28: refreshUserKey fetches even when the cached entry is within its
\* TTL; on success the cache holds the fetched key and version with the
\* time of the fetch, on failure no entry and no version remain for the
\* user.
C28_RefreshEvictsAndFetches ==
    last.op = "refreshUserKey"
        => /\ last.fetches >= 1
           /\ last.ok
                => /\ last.result = last.keyData.public_key
                   /\ kx[last.user].userKeys[last.peer] =
                        [publicKey |-> last.keyData.public_key,
                         keyVersion |-> ReportedVersion, timestamp |-> now]
                   /\ kx[last.user].keyVersions[last.peer] = ReportedVersion
           /\ ~last.ok
                => /\ kx[last.user].userKeys[last.peer] = NoEntry
                   /\ kx[last.user].keyVersions[last.peer] = 0

\* C28, its case: an entry within its TTL was replaced by one fetched later
C28_RefreshedWithinTTL ==
    /\ last.op = "refreshUserKey"
    /\ CachedBefore # NoEntry
    /\ IsCacheValid(CachedBefore.timestamp, now)
    /\ last.ok
    /\ kx[last.user].userKeys[last.peer].timestamp > CachedBefore.timestamp

\* the call c of initialize resumes after its await with the outcome ok of
\* the promise it awaited, and returns
InitializeReturns(c, ok) ==
    RunReact /\ Head(mq).c = c /\ Head(mq).ok = ok

\* C29: when every await of an attempt eventually returns and queued jobs
\* run, every call of initialize returns and the state does not stay
\* Initializing; a call that started an attempt and resolves leaves no
\* in-flight marker and the state Ready; a call that rejects leaves no
\* marker and the state Error; a call made in state Error starts a fresh
\* attempt.
C29_InitializeSettles ==
    /\ \A c \in Callers : (call[c].pc # "idle") ~> (call[c].pc = "idle")
    /\ (StatusOf(Me) = INITIALIZING) ~> (StatusOf(Me) \in {AVAILABLE, ERROR})
    /\ [][\A c \in Callers :
            /\ (InitializeReturns(c, TRUE) /\ call[c].own)
                    => /\ enc'[Me].initializationPromise = 0
                       /\ StatusOf(Me)' = AVAILABLE
            /\ InitializeReturns(c, FALSE)
                    => /\ enc'[Me].initializationPromise = 0
                       /\ StatusOf(Me)' = ERROR]_vars
    /\ [][(RunCall /\ StatusOf(Me) = ERROR)
            => \E c \in Callers : /\ att'[c].pc = "getPriv"
                                 /\ att'[c] # att[c]
                                 /\ call'[c].own]_vars

BackoffBase == 500

C33_NoRetryOfAuthOrClient ==
    last.op = "shouldRetry"
        => /\ (\/ isAuthError(last.error)
                \/ (last.error.status >= 400 /\ last.error.status < 500)
                \/ last.retryCount >= last.maxRetries)
                    => ~last.result
           /\ last.result
                    => \/ isNetworkError(last.error)
                       \/ (last.error.status >= 500 /\ last.error.status < 600)

\* the call of retryWithBackoff has not ended
Retrying == last.op = "retryWithBackoff" /\ last.pc \in {"call", "wait"}

\* C34: retryWithBackoff returns the value of the first call of fn that
\* returns, calls fn at most maxRetries + 1 times, throws the error of the
\* first failure that shouldRetry rejects at once, throws the last error
\* when every call failed, and ends when every call of fn returns or
\* throws and the timers fire.
C34_RetryWithBackoff ==
    /\ [](last.op = "retryWithBackoff"
            => /\ last.calls <= last.maxRetries + 1
               /\ last.pc = "thrown" => last.thrown = last.lastError)
    /\ [][\A value \in FnValues :
            FnReturns(value) => last'.pc = "returned" /\ last'.result = value]_vars
    /\ [][\A error \in ThrownErrors, jitter \in Jitters :
            (FnThrows(error, jitter) /\ ~shouldRetry(error, last.i, last.maxRetries))
                => last'.pc = "thrown" /\ last'.thrown = error]_vars
    /\ [][(last.op = "retryWithBackoff" /\ ~Retrying) => last' = last]_vars
    /\ Retrying ~> (last.op = "retryWithBackoff" /\ ~Retrying)

\* C34, its case: fn returned at its last permitted call, after failures
\* that were retried
C34_ReturnedAtLastCall ==
    /\ last.op = "retryWithBackoff"
    /\ last.pc = "returned"
    /\ last.maxRetries = maxRetries
    /\ last.calls = last.maxRetries + 1


IdsOf(messages) == {messages[i].id : i \in 1..Len(messages)}

\* C36: under any interleaving of handleMessage calls the messages list
\* holds no id twice, and a handleMessage call that resumes appends its
\* message, once, if its id was not in the list, and leaves the list alone
\* otherwise: with the decrypted text and the is_encrypted flag of the
\* message when decryption succeeded, with the raw content or the
\* placeholder, marked not encrypted, when it failed.
C36_NoDuplicateMessages ==
    [][/\ \A i, j \in 1..Len(last'.messages) :
             last'.messages[i].id = last'.messages[j].id => i = j
       /\ \A h \in Handlers :
            last.handling[h].pc = "decrypting" /\ last'.handling[h].pc = "none" =>
                LET messageData == last.handling[h].messageData
                    id == IF messageData.id # NoId THEN messageData.id
                          ELSE GeneratedIds[last.generatedIds + 1]
                    sender == IF messageData.sender_id = Me THEN "me" ELSE "other"
                IN  IF id \in IdsOf(last.messages)
                    THEN last'.messages = last.messages
                    ELSE \/ \E decrypted \in Contents :
                             last'.messages = Append(last.messages,
                                [id |-> id, text |-> decrypted, sender |-> sender,
                                 isEncrypted |-> messageData.is_encrypted])
                         \/ last'.messages = Append(last.messages,
                                [id |-> id,
                                 text |-> IF messageData.content = <<>>
                                          THEN ErrorDecrypting
                                          ELSE messageData.content,
                                 sender |-> sender, isEncrypted |-> FALSE])
       /\ (\A h \in Handlers : last'.handling[h].pc # "none"
                                \/ last.handling[h].pc # "decrypting")
                => last'.messages = last.messages]_vars

\* three messages are kept: one whose decryption failed shows the
\* placeholder, one got a generated id, one is shown decrypted
C36_ThreeMessagesKept ==
    /\ Len(last.messages) = 3
    /\ \E i \in 1..3 : last.messages[i].text = ErrorDecrypting
                         /\ ~last.messages[i].isEncrypted
    /\ \E i \in 1..3 : last.messages[i].id = GeneratedIds[1]
    /\ \E i \in 1..3 : last.messages[i].isEncrypted

\* C37: whatever getUserPublicKey, refreshUserKey, checkKeyRotationNeeded
\* and clearCache calls were made and however their fetches went, userKeys
\* and keyVersions of a process hold the same users with the same versions,
\* every cached public key passes _isValidPublicKey, and a public key that
\* getUserPublicKey or refreshUserKey returned passes it too.
C37_CacheMapsAgree ==
    /\ \A u \in Users, v \in Users :
            LET cachedData == kx[u].userKeys[v]
            IN  /\ (cachedData = NoEntry) = (kx[u].keyVersions[v] = 0)
                /\ cachedData # NoEntry =>
                        /\ kx[u].keyVersions[v] = cachedData.keyVersion
                        /\ IsValidPublicKey(cachedData.publicKey)
    /\ last.op \in {"getUserPublicKey", "refreshUserKey"} /\ last.ok
            => IsValidPublicKey(last.result)

\* a refresh of a cached key failed at the server: the entry and the version
\* are both gone
C37_FailedRefreshEmptiedBoth ==
    /\ last.op = "refreshUserKey"
    /\ ~last.ok
    /\ last.before.userKeys[last.peer] # NoEntry
    /\ kx[last.user].userKeys[last.peer] = NoEntry
    /\ kx[last.user].keyVersions[last.peer] = 0

\* no call of initialize or of refreshKeys is in progress in the process of
\* Me: no call has begun and not returned, no run of _performInitialization
\* is between two awaits, no job is queued
Quiescent ==
    /\ mq = <<>>
    /\ Busy = {}
    /\ \A c \in Callers : ~InFlight(att[c])

\* C38: whenever the service of Me is Ready and no initialize and no key
\* refresh is in progress, the private key KeyExchangeService holds equals
\* the private key the key store holds for Me, and the public key it holds
\* is the other half of that pair and the one the directory holds.
C38_MemoryMatchesStore ==
    (StatusOf(Me) = AVAILABLE /\ Quiescent)
        => /\ kx[Me].myPrivateKey = ks[Me].privateKey
           /\ kx[Me].myPublicKey = kx[Me].myPrivateKey
           /\ directory[Me].public_key = kx[Me].myPublicKey

\* the service of u is Ready, the key store holds a private key that is
\* usable and the directory holds the public key of the same pair
Healthy(u) ==
    /\ StatusOf(u) = AVAILABLE
    /\ RsaUsable(ks[u].privateKey)
    /\ directory[u].public_key = ks[u].privateKey

\* C39: initialize run again on a healthy service, with the key store and
\* the directory answering, generates no key pair, writes nothing to the key
\* store, uploads nothing, leaves the private key, the public key and the
\* key version in memory as they were, and ends in Ready.
C39_InitializeIdempotent ==
    [][\A u \in Users :
        (Initialize(u) /\ Healthy(u))
            => /\ generated' = generated
               /\ ks' = ks
               /\ directory' = directory
               /\ kx'[u].myPrivateKey = kx[u].myPrivateKey
               /\ kx'[u].myPublicKey = kx[u].myPublicKey
               /\ kx'[u].myKeyVersion = kx[u].myKeyVersion
               /\ StatusOf(u)' = AVAILABLE]_vars

\* a healthy service whose pair is not the first one and carries the
\* version of a later reading of the clock
C39_HealthyAfterRotation ==
    /\ Healthy(Me)
    /\ generated[Me] > 1
    /\ kx[Me].myKeyVersion > 1
    /\ kx[Me].myKeyVersion = directory[Me].key_version
    /\ now > kx[Me].myKeyVersion

\* C40: a decryptMessage call that unwraps and decrypts an encrypted
\* envelope checks the signature exactly when the envelope carries one and
\* a senderUserId was passed; otherwise (no signature, or no senderUserId, as
\* in the call of the chat hook) it returns the decrypted plain text without
\* a check and leaves no failure recorded.
C40_VerifiesOnlyWhenAsked ==
    [][\A e \in Delivered :
            (/\ last'.op = "decrypt"
             /\ last'.ok
             /\ e.is_encrypted
             /\ AlteredField(e) = last'.altered
             /\ DecryptMessage(last'.user, last'.peer, e))
                => /\ (last'.verified # "skipped")
                        = (e.signature # NoSignature /\ last'.peer # NoUser)
                   /\ last'.verified = "skipped"
                        => /\ LET aesKey == decryptWithRSA(e.encrypted_aes_key,
                                                kx[last'.user].myPrivateKey)
                              IN  Ok(last'.result)
                                      = decryptWithAES(e.content, e.iv, aesKey.v)
                           /\ enc'[last'.user].lastError = NoError]_vars

\* the call of the chat hook: the recipient decrypted a signed envelope
\* without naming the sender, and no check was made
C40_DecryptedWithoutSender ==
    /\ last.op = "decrypt"
    /\ last.user = sent.to
    /\ last.peer = NoUser
    /\ last.altered = "none"
    /\ wire.is_encrypted
    /\ wire.signature # NoSignature
    /\ last.ok
    /\ last.result = sent.message
    /\ last.verified = "skipped"

=============================================================================
